---- MODULE Spec2Model ----
(***************************************************************************)
(* A model of the request-orchestration and streaming-relay subsystem of   *)
(* the Briefrr browser extension:                                          *)
(*   - RateLimiter   (utils/rate-limiter.js, src/unnamed/part_002)         *)
(*   - Storage       (src/utils/storage.js)                                *)
(*   - the Gemini streaming client (utils/gemini-api.js, part_001)         *)
(*   - the background service worker relay (background.js, part_000)       *)
(*   - the content-script session controller (src/content.js)              *)
(*                                                                         *)
(* Every `await` of the JavaScript source is a suspension point: an async  *)
(* function is modelled as one action per stretch of code between two      *)
(* suspension points.  Time is the variable `now` (milliseconds, the value *)
(* of Date.now()); it advances by the Tick action.                         *)
(***************************************************************************)
EXTENDS Integers, Sequences, FiniteSets, TLC

VARIABLES
  now,      \* Date.now(), in ms
  ticks,    \* number of clock advances so far (bounds the model)
  store,    \* chrome.storage.local: a function from the keys present to values
  call,     \* per process: the RateLimiter call in progress
  orphans,  \* canMakeRequest checks still running after their caller timed out
  gh,       \* history of the limiter calls (observations used by the properties)
  dec,      \* the response body being read by streamGeminiResponse, and its locals
  relay,    \* the service worker's handler of one request on one port
  sess,     \* the content script's module variables (content.js, lines 87-91)
  runs,     \* the invocations of runBriefrr: where each is suspended, and its locals
  acts,     \* number of actions of the user so far (bounds the model)
  chans,    \* per flow of control: the execution of streamGeminiResponse it is in
  fmt       \* a call of formatTimeRemaining: its argument and what it returned

limVars == <<now, ticks, store, call, orphans, gh>>

ctlVars == <<sess, runs, acts>>

auxVars == <<chans, fmt>>

vars == <<now, ticks, store, call, orphans, gh, dec, relay, sess, runs, acts, chans, fmt>>

-----------------------------------------------------------------------------
(* Bounds of the model *)

\* Date.now() at the start of the model: an epoch time, larger than any delay.
StartTime == 1000000

\* Number of clock advances explored.
MaxTicks == 3

\* Longest run of consecutive recordRateLimitError() calls explored.
MaxErrRun == 5

\* Number of frames of a response body.
MaxFrames == 2

\* Number of requests the relay handles, one after another.
MaxRequests == 2

\* Number of times runBriefrr is invoked.
MaxRuns == 2

\* Number of chunk messages a port delivers.
MaxChunks == 2

\* Number of actions of the user.
MaxActions == 3

\* The time (ms) that passes between two actions of a burst.

PAUSE == 300

\* The longest time, in seconds, given to formatTimeRemaining.
MaxSeconds == 185

\* The clock advances by one of these amounts (ms).
Deltas == {1000, 3000, 60000}

Min(a, b) == IF a < b THEN a ELSE b

-----------------------------------------------------------------------------
(* Storage: src/utils/storage.js *)

setKey(s, k, v) == [x \in DOMAIN s \cup {k} |-> IF x = k THEN v ELSE s[x]]

removeKey(s, k) == [x \in DOMAIN s \ {k} |-> s[x]]

\* `result.lastRequestTime || null`.  null is modelled as 0: in the arithmetic
\* and the truth tests of canMakeRequest, null behaves exactly as 0 does.
getLastRequestTime(s) ==
  IF "lastRequestTime" \in DOMAIN s /\ s["lastRequestTime"] # 0
  THEN s["lastRequestTime"] ELSE 0

setLastRequestTime(s, t) == setKey(s, "lastRequestTime", t)

\* `result.retryBackoff || 0`
getRetryBackoff(s) ==
  IF "retryBackoff" \in DOMAIN s /\ s["retryBackoff"] # 0
  THEN s["retryBackoff"] ELSE 0

setRetryBackoff(s, d) == setKey(s, "retryBackoff", d)

clearRetryBackoff(s) == removeKey(s, "retryBackoff")

-----------------------------------------------------------------------------
(* RateLimiter: src/unnamed/part_002 *)

MIN_REQUEST_DELAY == 4000

INITIAL_BACKOFF == 60000

MAX_BACKOFF == 300000

\* The delay of the fail-open timer of canMakeRequest.
GATE_TIMEOUT == 2000

\* content.js, line 190: the delay of the debounce timeout
DEBOUNCE_DELAY == 500

\* content.js, line 334: the least length of a usable article
MIN_CONTENT == 50

Procs == {"relay", "content"}

\* The values canMakeRequest() resolves to.  `flag` is "timedOut" or "error" for
\* the two fail-open results, and "threw" stands for a rejected promise.
Allowed == [allowed |-> TRUE, remainingMs |-> 0, reason |-> "none", flag |-> "none"]

Denied(ms, why) == [allowed |-> FALSE, remainingMs |-> ms, reason |-> why, flag |-> "none"]

Threw == [allowed |-> FALSE, remainingMs |-> 0, reason |-> "none", flag |-> "threw"]

\* (mutant) the timer resolves to a denial instead of failing open
timeoutResult_denies == Denied(GATE_TIMEOUT, "rate_limit")

\* line 32: the timer resolves { allowed: true, timedOut: true }
timeoutResult == [Allowed EXCEPT !.flag = "timedOut"]

\* lines 77-81: the catch block resolves { allowed: true, error: true }
errorResult == [Allowed EXCEPT !.flag = "error"]

\* (mutant) the window is closed at its end: `now <= backoffUntil`
backoffActive_inclusive(last, backoff, nowv) == backoff > 0 /\ nowv <= last + backoff

\* lines 41-50: the backoff window [lastRequestTime, lastRequestTime + backoffDelay)
backoffActive(last, backoff, nowv) == backoff > 0 /\ nowv < last + backoff

backoffResult(last, backoff, nowv) == Denied((last + backoff) - nowv, "backoff")

\* (mutant) line 61 with the time since the last request for the time left
spacingResult_elapsed(last, nowv) ==
  IF last # 0 /\ nowv - last < MIN_REQUEST_DELAY
  THEN Denied(nowv - last, "rate_limit")
  ELSE Allowed

\* (mutant) `timeSinceLastRequest <= MIN_REQUEST_DELAY`
spacingResult_inclusive(last, nowv) ==
  IF last # 0 /\ nowv - last <= MIN_REQUEST_DELAY
  THEN Denied(MIN_REQUEST_DELAY - (nowv - last), "rate_limit")
  ELSE Allowed

\* lines 55-67: the minimum spacing between two requests
spacingResult(last, nowv) ==
  IF last # 0 /\ nowv - last < MIN_REQUEST_DELAY
  THEN Denied(MIN_REQUEST_DELAY - (nowv - last), "rate_limit")
  ELSE Allowed

\* (mutant) the backoff is counted in seconds
nextBackoff_seconds(currentBackoff) ==
  IF currentBackoff = 0
  THEN INITIAL_BACKOFF \div 1000
  ELSE Min(currentBackoff * 2, MAX_BACKOFF)

\* (mutant) a backoff shorter than the spacing
nextBackoff_short(currentBackoff) == MIN_REQUEST_DELAY \div 2

\* (mutant) the doubling is not capped
nextBackoff_uncapped(currentBackoff) ==
  IF currentBackoff = 0
  THEN INITIAL_BACKOFF
  ELSE currentBackoff * 2

\* lines 105-112
nextBackoff(currentBackoff) ==
  IF currentBackoff = 0
  THEN INITIAL_BACKOFF
  ELSE Min(currentBackoff * 2, MAX_BACKOFF)

\* The check of canMakeRequest (checkPromise): where it is suspended, and its
\* locals.  pc: "getLast" -> "getBackoff" -> ("clear" ->) "final".
NoCheck == [pc |-> "final", last |-> 0, backoff |-> 0, nowv |-> 0]

IdleCall ==
  [op |-> "none", pc |-> "idle", chk |-> NoCheck, timer |-> "none", deadline |-> 0,
   at |-> 0, result |-> Allowed, why |-> "none", cur |-> 0]

\* line 36 resolved
checkGetLast(c, s) == [c EXCEPT !.pc = "getBackoff", !.last = getLastRequestTime(s)]

\* lines 37-53: the second read resolved; Date.now() is read; the check either is
\* decided or goes on to clear an expired backoff.
checkGetBackoff(c, s, t) ==
  LET b == getRetryBackoff(s) IN
  [c EXCEPT !.backoff = b, !.nowv = t,
            !.pc = IF b > 0 /\ ~backoffActive(c.last, b, t) THEN "clear" ELSE "final"]

\* What a check at pc "final" resolves to.
checkResult(c) ==
  IF backoffActive(c.last, c.backoff, c.nowv)
  THEN backoffResult(c.last, c.backoff, c.nowv)
  ELSE spacingResult(c.last, c.nowv)

\* No RateLimiter call of p is in progress (its last one, if any, has resolved).
Free(p) == call[p].pc \in {"idle", "ret"}

\* A storage request of the check of p can be answered now: the fail-open timer,
\* once due, runs before any later storage answer.
Responsive(p) == call[p].timer # "armed" \/ now < call[p].deadline

-----------------------------------------------------------------------------
(* History of the limiter calls.  recAt: the time stamped by the latest         *)
(* recordRequest(); errRun: how many recordRateLimitError() calls have completed*)
(* one after another since the backoff was last absent; errValid: no clearing   *)
(* of the backoff happened while one of those calls was in progress; errRet:    *)
(* the value the latest of them returned.                                       *)

InitHistory == [recAt |-> 0, errRun |-> 0, errValid |-> TRUE, errRet |-> 0]

onClear(g) ==
  [g EXCEPT !.errRun = 0, !.errValid = ~(\E p \in Procs : call[p].op = "recErr")]

onErrorRecorded(g, d) ==
  [g EXCEPT !.errRun = IF g.errValid THEN g.errRun + 1 ELSE 0, !.errRet = d]

\* canMakeRequest() resolves for its caller, which resumes at pc "ret".
settle(p, c, result, why) ==
  [call EXCEPT ![p] = [call[p] EXCEPT !.pc = "ret", !.chk = c, !.timer = "none",
                                      !.deadline = 0, !.result = result, !.why = why]]

\* lines 28-36: the timer is armed and the first storage read is issued.
canMakeRequest_call(p) ==
  /\ Free(p)
  /\ call' = [call EXCEPT ![p] =
                [IdleCall EXCEPT !.op = "can", !.pc = "check",
                                 !.chk = [NoCheck EXCEPT !.pc = "getLast"],
                                 !.timer = "armed", !.deadline = now + GATE_TIMEOUT,
                                 !.at = now]]
  /\ UNCHANGED <<now, ticks, store, orphans, gh>>

\* line 36: Storage.getLastRequestTime() resolves.
canMakeRequest_getLast(p) ==
  /\ call[p].op = "can" /\ call[p].pc = "check" /\ call[p].chk.pc = "getLast"
  /\ Responsive(p)
  /\ call' = [call EXCEPT ![p].chk = checkGetLast(call[p].chk, store)]
  /\ UNCHANGED <<now, ticks, store, orphans, gh>>

\* lines 37-67: Storage.getRetryBackoff() resolves and the check is evaluated.
canMakeRequest_getBackoff(p) ==
  /\ call[p].op = "can" /\ call[p].pc = "check" /\ call[p].chk.pc = "getBackoff"
  /\ Responsive(p)
  /\ LET c == checkGetBackoff(call[p].chk, store, now) IN
       call' = IF c.pc = "final"
               THEN settle(p, c, checkResult(c), "check")
               ELSE [call EXCEPT ![p].chk = c]
  /\ UNCHANGED <<now, ticks, store, orphans, gh>>

\* lines 52-67: Storage.clearRetryBackoff() resolves; the spacing is checked.
canMakeRequest_clear(p) ==
  /\ call[p].op = "can" /\ call[p].pc = "check" /\ call[p].chk.pc = "clear"
  /\ Responsive(p)
  /\ store' = clearRetryBackoff(store)
  /\ gh' = onClear(gh)
  /\ LET c == [call[p].chk EXCEPT !.pc = "final"] IN
       call' = settle(p, c, spacingResult(c.last, c.nowv), "check")
  /\ UNCHANGED <<now, ticks, orphans>>

\* lines 31-33, 70-76: the timer wins the race; the check goes on without a caller.
canMakeRequest_timeout(p) ==
  /\ call[p].op = "can" /\ call[p].pc = "check"
  /\ call[p].timer = "armed" /\ now >= call[p].deadline
  /\ call' = settle(p, NoCheck, timeoutResult, "timeout")
  /\ orphans' = orphans \cup {call[p].chk}
  /\ UNCHANGED <<now, ticks, store, gh>>

\* lines 77-81: a storage request of the check rejects before the timer is due.
canMakeRequest_fail(p) ==
  /\ call[p].op = "can" /\ call[p].pc = "check"
  /\ Responsive(p)
  /\ call' = settle(p, NoCheck, errorResult, "fail")
  /\ UNCHANGED <<now, ticks, store, orphans, gh>>

\* A check whose caller timed out goes on: it may still clear the backoff.
orphanStep(c) ==
  /\ c \in orphans
  /\ \/ /\ c.pc = "getLast"
        /\ orphans' = (orphans \ {c}) \cup {checkGetLast(c, store)}
        /\ UNCHANGED <<store, gh>>
     \/ /\ c.pc = "getBackoff"
        /\ LET d == checkGetBackoff(c, store, now) IN
             orphans' = (orphans \ {c}) \cup
                        (IF d.pc = "clear" THEN {[NoCheck EXCEPT !.pc = "clear"]} ELSE {})
        /\ UNCHANGED <<store, gh>>
     \/ /\ c.pc = "clear"
        /\ store' = clearRetryBackoff(store)
        /\ gh' = onClear(gh)
        /\ orphans' = orphans \ {c}
  /\ UNCHANGED <<now, ticks, call>>

\* The storage request of an orphaned check is never answered, or rejects.
orphanDrop(c) ==
  /\ c \in orphans
  /\ orphans' = orphans \ {c}
  /\ UNCHANGED <<now, ticks, store, call, gh>>

\* lines 88-90
recordRequest(p) ==
  /\ Free(p)
  /\ store' = setLastRequestTime(store, now)
  /\ gh' = [gh EXCEPT !.recAt = now]
  /\ call' = [call EXCEPT ![p] = IdleCall]
  /\ UNCHANGED <<now, ticks, orphans>>

\* lines 95-97
recordSuccess(p) ==
  /\ Free(p)
  /\ store' = clearRetryBackoff(store)
  /\ gh' = onClear(gh)
  /\ call' = [call EXCEPT ![p] = IdleCall]
  /\ UNCHANGED <<now, ticks, orphans>>

\* line 103: Storage.getRetryBackoff() resolves.
recordRateLimitError_get(p) ==
  /\ Free(p)
  /\ gh.errRun < MaxErrRun
  /\ call' = [call EXCEPT ![p] =
                [IdleCall EXCEPT !.op = "recErr", !.pc = "set", !.cur = getRetryBackoff(store)]]
  /\ UNCHANGED <<now, ticks, store, orphans, gh>>

\* lines 105-116: Storage.setRetryBackoff(newBackoff) resolves; newBackoff is returned.
recordRateLimitError_set(p) ==
  /\ call[p].op = "recErr" /\ call[p].pc = "set"
  /\ LET newBackoff == nextBackoff(call[p].cur) IN
       /\ store' = setRetryBackoff(store, newBackoff)
       /\ gh' = onErrorRecorded(gh, newBackoff)
       /\ call' = [call EXCEPT ![p] = [IdleCall EXCEPT !.op = "recErr", !.pc = "ret", !.cur = newBackoff]]
  /\ UNCHANGED <<now, ticks, orphans>>

\* Time passes.  An armed fail-open timer runs when it is due: the clock does
\* not pass its deadline.
Tick(d) ==
  /\ ticks < MaxTicks
  /\ \A p \in Procs : call[p].timer = "armed" => now + d <= call[p].deadline
  /\ now' = now + d
  /\ ticks' = ticks + 1
  /\ UNCHANGED <<store, call, orphans, gh>>

-----------------------------------------------------------------------------
(* The response body and its decoding: src/unnamed/part_001, lines 184-209.    *)
(* A body is a sequence of bytes.  An ASCII byte is written as its character   *)
(* ("LF" and "CR" for the line feed and the carriage return); "C3" "A9" are    *)
(* the two bytes of one two-byte character, written "U+E9" once decoded.       *)
(* The JSON envelope {"candidates":[{"content":{"parts":[{"text":T}]}}]} is    *)
(* written { T }: JSON.parse succeeds on a brace, text characters and a        *)
(* closing brace, and fails on anything else.                                  *)

LeadByte == "C3"

ContByte == "A9"

TextChars == {"h", "w", "x", "U+E9", "U+FFFD"}

Whitespace == {" ", "CR", "LF"}

\* line 197: the marker of a data line, 'data: '
DataPrefix == <<"d", "a", "t", "a", ":", " ">>

\* line 199: '[DONE]'
DoneMarker == <<"[", "D", "O", "N", "E", "]">>

prepend(c, r) == [r EXCEPT !.chars = <<c>> \o r.chars]

RECURSIVE decodeBytes(_, _)
\* line 192: decoder.decode(value, { stream: true }).  `pending` is the lead byte
\* of an incomplete character, kept for the next call ("" when there is none).
decodeBytes(pending, bytes) ==
  IF bytes = <<>> THEN [chars |-> <<>>, pending |-> pending]
  ELSE LET b == Head(bytes) IN
    IF pending # ""
    THEN IF b = ContByte
         THEN prepend("U+E9", decodeBytes("", Tail(bytes)))
         ELSE prepend("U+FFFD", decodeBytes("", bytes))
    ELSE IF b = LeadByte THEN decodeBytes(LeadByte, Tail(bytes))
    ELSE IF b = ContByte THEN prepend("U+FFFD", decodeBytes("", Tail(bytes)))
    ELSE prepend(b, decodeBytes("", Tail(bytes)))

RECURSIVE split(_)
\* line 193: buffer.split('\n')
split(s) ==
  IF \A i \in 1..Len(s) : s[i] # "LF" THEN <<s>>
  ELSE LET i == CHOOSE j \in 1..Len(s) : s[j] = "LF" /\ \A k \in 1..(j - 1) : s[k] # "LF"
       IN  <<SubSeq(s, 1, i - 1)>> \o split(SubSeq(s, i + 1, Len(s)))

startsWith(s, pre) == Len(s) >= Len(pre) /\ SubSeq(s, 1, Len(pre)) = pre

RECURSIVE trimStart(_)
trimStart(s) == IF s # <<>> /\ Head(s) \in Whitespace THEN trimStart(Tail(s)) ELSE s

RECURSIVE trimEnd(_)
trimEnd(s) ==
  IF s # <<>> /\ s[Len(s)] \in Whitespace THEN trimEnd(SubSeq(s, 1, Len(s) - 1)) ELSE s

\* line 198: String.prototype.trim
trim(s) == trimEnd(trimStart(s))

\* lines 200-206: JSON.parse(data) and json.candidates?.[0]?.content?.parts?.[0]?.text;
\* <<>> when the parse throws or there is no text (nothing is yielded then).
parseText(data) ==
  IF /\ Len(data) >= 2
     /\ data[1] = "{"
     /\ data[Len(data)] = "}"
     /\ \A i \in 2..(Len(data) - 1) : data[i] \in TextChars
  THEN SubSeq(data, 2, Len(data) - 1)
  ELSE <<>>

RECURSIVE processLines(_), processLines_aborts(_)
\* (mutant) a data line that cannot be parsed ends the generator
processLines_aborts(ls) ==
  IF ls = <<>> THEN [out |-> <<>>, done |-> FALSE]
  ELSE LET l == Head(ls) IN
    IF startsWith(l, DataPrefix)
    THEN LET data == trim(SubSeq(l, Len(DataPrefix) + 1, Len(l))) IN
         IF data = DoneMarker \/ parseText(data) = <<>>
         THEN [out |-> <<>>, done |-> TRUE]
         ELSE LET r == processLines_aborts(Tail(ls))
              IN  [r EXCEPT !.out = <<parseText(data)>> \o r.out]
    ELSE processLines_aborts(Tail(ls))

\* lines 196-208: the texts yielded for the complete lines of one read, and
\* whether the generator returned at a '[DONE]' line.
processLines(ls) ==
  IF ls = <<>> THEN [out |-> <<>>, done |-> FALSE]
  ELSE LET l == Head(ls) IN
    IF startsWith(l, DataPrefix)
    THEN LET data == trim(SubSeq(l, Len(DataPrefix) + 1, Len(l))) IN
         IF data = DoneMarker
         THEN [out |-> <<>>, done |-> TRUE]
         ELSE LET t == parseText(data)
                  r == processLines(Tail(ls))
              IN  IF t # <<>> THEN [r EXCEPT !.out = <<t>> \o r.out] ELSE r
    ELSE processLines(Tail(ls))

\* (mutant) the unterminated last line is discarded instead of carried over
carry_discarded(lines) == <<>>

\* line 194: buffer = lines.pop() || ''
carry(lines) == lines[Len(lines)]

\* lines 192-208: one iteration of the read loop on the bytes of one read.
readChunk(st, bytes) ==
  LET d     == decodeBytes(st.pending, bytes)
      lines == split(st.buffer \o d.chars)
      pl    == processLines(SubSeq(lines, 1, Len(lines) - 1))
  IN  [buffer |-> IF pl.done THEN <<>> ELSE carry(lines),
       pending |-> IF pl.done THEN "" ELSE d.pending,
       out |-> pl.out,
       done |-> pl.done]

\* lines 184-186: reader, decoder and buffer before the first read
InitReader == [buffer |-> <<>>, pending |-> "", out |-> <<>>, done |-> FALSE]

\* The frames a response body is made of.
Frames ==
  { DataPrefix \o <<"{", "h", "}", "LF", "LF">>,
    DataPrefix \o <<"{", "C3", "A9", "}", "CR", "LF">>,
    DataPrefix \o <<"{", "x", "LF">>,
    DataPrefix \o <<"{", "}", "LF">>,
    DataPrefix \o <<"{", "w", "}">>,
    DataPrefix \o DoneMarker \o <<"LF">>,
    <<"C3", "LF">> }

RECURSIVE flatten(_)
flatten(fs) == IF fs = <<>> THEN <<>> ELSE Head(fs) \o flatten(Tail(fs))

Bodies == { flatten(fs) : fs \in UNION { [1..n -> Frames] : n \in 0..MaxFrames } }

\* dec: the body, how many of its bytes have been read, the locals of the loop,
\* the texts yielded so far, whether the generator has returned, and two
\* observations: a read ended inside a character (splitChar) or inside a line
\* (splitLine).
NoBody ==
  [body |-> <<>>, pos |-> 0, buffer |-> <<>>, pending |-> "", out |-> <<>>,
   state |-> "none", splitChar |-> FALSE, splitLine |-> FALSE]

openBody(b) == [NoBody EXCEPT !.body = b, !.state = "reading"]

\* lines 188-208: reader.read() resolves with the next k bytes.
afterRead(d, k) ==
  LET r == readChunk([buffer |-> d.buffer, pending |-> d.pending],
                     SubSeq(d.body, d.pos + 1, d.pos + k))
  IN  [d EXCEPT !.pos = d.pos + k,
                !.buffer = r.buffer,
                !.pending = r.pending,
                !.out = d.out \o r.out,
                !.state = IF r.done THEN "returned" ELSE "reading",
                !.splitChar = d.splitChar \/ r.pending # "",
                !.splitLine = d.splitLine \/ r.buffer # <<>>]

\* line 190: reader.read() resolves { done: true }; the loop ends.
afterEnd(d) == [d EXCEPT !.state = "returned", !.buffer = <<>>, !.pending = ""]

StreamRead(k) ==
  /\ dec.state = "reading"
  /\ k \in 1..(Len(dec.body) - dec.pos)
  /\ dec' = afterRead(dec, k)
  /\ UNCHANGED <<limVars, relay>>

StreamEnd ==
  /\ dec.state = "reading"
  /\ dec.pos = Len(dec.body)
  /\ dec' = afterEnd(dec)
  /\ UNCHANGED <<limVars, relay>>

-----------------------------------------------------------------------------
(* Messages of the channel, and the relay's record.                            *)

\* (mutant) lines 125, 131 with Math.floor for Math.ceil
formatTimeRemaining_floor(ms) ==
  LET seconds == ms \div 1000 IN
  IF seconds < 60
  THEN [n |-> seconds, unit |-> IF seconds # 1 THEN "seconds" ELSE "second"]
  ELSE LET minutes == seconds \div 60 IN
       [n |-> minutes, unit |-> IF minutes # 1 THEN "minutes" ELSE "minute"]

\* part_002, lines 124-133: formatTimeRemaining(ms), as the number and the unit shown
formatTimeRemaining(ms) ==
  LET seconds == (ms + 999) \div 1000 IN
  IF seconds < 60
  THEN [n |-> seconds, unit |-> IF seconds # 1 THEN "seconds" ELSE "second"]
  ELSE LET minutes == (seconds + 59) \div 60 IN
       [n |-> minutes, unit |-> IF minutes # 1 THEN "minutes" ELSE "minute"]

NoWait == [n |-> 0, unit |-> ""]

\* No call of formatTimeRemaining was made.
NoFormat == [ms |-> 0, called |-> FALSE, out |-> NoWait]

\* part_001, lines 128-182: what one flow of control does with the limiter: an
\* execution of streamGeminiResponse up to the reading of the body (kind
\* "stream"), or the check of a run (content.js, line 296: kind "check").  pc
\* is where it is suspended: "idle" (nowhere), "gate" (line 130, or line 296 of
\* content.js), "record" (line 140), "fetch" (line 144), "recerr" (line 173),
\* "success" (line 182); stamp is the Date.now() of line 89; n counts the
\* executions of the flow.  The other fields observe it: responsive tells
\* whether the check resolved on the answers of the store, fetchAt is the time
\* the latest upstream call that followed such a check was issued (0: none),
\* after429 tells whether the execution began when another flow had recorded a
\* 429 and had not begun a new request since.
IdleChan ==
  [pc |-> "idle", kind |-> "none", stamp |-> 0, n |-> 0, responsive |-> FALSE, fetchAt |-> 0,
   after429 |-> FALSE]

\* An Error's message.  `RATE_LIMITED:<ms>:<text>` is [kind |-> "RATE_LIMITED",
\* ms, text, wait], wait being the time the text names; the other messages have
\* no such parts.
errorMessage(kind, ms, text, wait) == [kind |-> kind, ms |-> ms, text |-> text, wait |-> wait]

NoError == errorMessage("", 0, "", NoWait)

chunkMsg(t) == [type |-> "chunk", text |-> t, error |-> NoError]

doneMsg == [type |-> "done", text |-> <<>>, error |-> NoError]

errorMsg(e) == [type |-> "error", text |-> <<>>, error |-> e]

\* part_001, lines 131-137: the error thrown when the relay's own check denies
gateError(res) ==
  errorMessage("RATE_LIMITED", res.remainingMs,
               IF res.reason = "backoff" THEN "Rate limit cooldown active. Please wait"
                                         ELSE "Too many requests. Please wait",
               formatTimeRemaining(res.remainingMs))

\* part_001, lines 173-175: the error thrown on HTTP 429
throttledError(backoffMs) ==
  errorMessage("RATE_LIMITED", backoffMs, "You've hit the API rate limit. Please wait",
               formatTimeRemaining(backoffMs))

\* part_001, line 169
invalidKeyError == errorMessage("INVALID_KEY", 0, "", NoWait)

\* part_001, lines 163-167, 178: parsed.error?.message, or `API error (<status>)`
upstreamError(status, hasMessage) ==
  IF hasMessage
  THEN errorMessage("SERVER_MESSAGE", 0, "message of the server", NoWait)
  ELSE errorMessage("API error", status, "", NoWait)

\* fetch() or reader.read() rejects
networkError == errorMessage("TypeError", 0, "Failed to fetch", NoWait)

\* (mutant) a denied check does not stop the request
proceeds_always(res) == TRUE

\* part_001, line 131: `if (!rateLimitCheck.allowed) throw ...`
proceeds(res) == res.allowed

\* (mutant) line 161 without the test
ok_always(status) == TRUE

\* part_001, line 161: response.ok
ok(status) == status = 200

\* (mutant) HTTP 429 is not told apart from the other failures
classify_noThrottle(status) ==
  IF status = 400 THEN "invalid" ELSE "other"

\* part_001, lines 169-178
classify(status) ==
  IF status = 400 THEN "invalid"
  ELSE IF status = 429 THEN "throttled"
  ELSE "other"

\* The statuses the upstream answers with.
Statuses == {200, 400, 403, 429, 500}

\* part_001, lines 92-118: validateApiKey, by the answer of its fetch: 0
\* when fetch() rejects, else the status, and whether the error body carried a
\* message
validateApiKey(answer, hasDetail) ==
  IF answer = 0 THEN [valid |-> FALSE, error |-> "NETWORK_ERROR"]
  ELSE IF answer = 200 THEN [valid |-> TRUE, error |-> ""]
  ELSE IF answer = 429 THEN [valid |-> FALSE, error |-> "RATE_LIMITED"]
  ELSE IF answer = 400 \/ answer = 403 THEN [valid |-> FALSE, error |-> "INVALID_KEY"]
  ELSE [valid |-> FALSE,
        error |-> IF hasDetail THEN "SERVER_MESSAGE" ELSE "API returned status"]

\* The response bodies of the relay's requests.
RelayBodies ==
  { <<>>,
    DataPrefix \o <<"{", "h", "}", "LF">> \o DataPrefix \o <<"{", "w", "}", "LF">>,
    DataPrefix \o <<"{", "h", "}", "LF">> \o DataPrefix \o DoneMarker \o <<"LF">> }

\* relay: pc is where the handler is suspended; port the state of its port as the
\* relay sees it; sent the messages the port accepted.  The other fields observe
\* the handling: nreq counts requests; gate is the result of its check; stamp the
\* time recordRequest() stamps; status the HTTP status; hasMessage whether the
\* error body was read, and carried a message; fetches, recorded, errCalls count
\* the upstream calls, recordRequest() and recordRateLimitError() calls; wrote
\* tells whether the handler changed the store; streak is the number of
\* requests in a row, this one included once its error body is read, that
\* passed the check on the answers of the store and were answered 429, and waited
\* tells whether each of them but the first arrived when the backoff window of
\* the one before had elapsed.
IdleRelay ==
  [pc |-> "idle", port |-> "none", sent |-> <<>>, nreq |-> 0, gate |-> Allowed,
   stamp |-> 0, status |-> 0, bodyRead |-> FALSE, hasMessage |-> FALSE,
   fetches |-> 0, recorded |-> FALSE, errCalls |-> 0, wrote |-> FALSE,
   streak |-> 0, waited |-> TRUE]

\* (mutant) the message is delivered whatever the state of the port
post_anyway(r, msgs) == [r EXCEPT !.sent = r.sent \o msgs]

\* port.postMessage(m): the port accepts m while it is connected and throws once
\* it is disconnected.
post(r, msgs) == IF r.port = "open" THEN [r EXCEPT !.sent = r.sent \o msgs] ELSE r

\* (mutant) the done message is sent after the error message too
onThrow_thenDone(r, e) == [post(r, <<errorMsg(e), doneMsg>>) EXCEPT !.pc = "finished"]

\* part_000, lines 49-51: streamGeminiResponse threw; the listener sends the error.
onThrow(r, e) == [post(r, <<errorMsg(e)>>) EXCEPT !.pc = "finished"]

\* part_000, lines 40-48: the generator yielded `texts` in one read and, if
\* `returned`, ended.  A failed send of a chunk ends the listener.
onYield(r, texts, returned) ==
  IF texts # <<>> /\ r.port # "open"
  THEN [r EXCEPT !.pc = "stopped"]
  ELSE LET chunks == [i \in 1..Len(texts) |-> chunkMsg(texts[i])] IN
       IF returned
       THEN [post(r, chunks \o <<doneMsg>>) EXCEPT !.pc = "finished"]
       ELSE post(r, chunks)

-----------------------------------------------------------------------------
(* The controller: src/content.js.  Every handler runs to its end, or to its   *)
(* next await, in one step, followed by the continuations of the promises it   *)
(* settled.                                                                    *)

Modes == {"highlights", "explain", "search"}

RunIds == 1..MaxRuns

\* The text of the i-th chunk message of a stream: i characters, each the
\* character i.
ChunkText(i) == [j \in 1..i |-> i]

\* An article that can be used.
NoPage == [throws |-> FALSE, length |-> MIN_CONTENT]

\* What extractContent() returns on the page: it throws, or article.content has
\* `length` characters once trimmed (0: content is missing, empty or blank).
Articles ==
  { [throws |-> TRUE, length |-> 0], [throws |-> FALSE, length |-> 0],
    [throws |-> FALSE, length |-> 40], [throws |-> FALSE, length |-> MIN_CONTENT] }

\* The value of the search input: empty, blank, or a question.
Queries == {"", " ", "q"}

\* What a run finds once it has passed the check: whether a key is stored, the
\* article and the query.  Everything is there, or one thing is missing.
Found(hasKey, article, query) == [hasKey |-> hasKey, article |-> article, query |-> query]

Findings ==
  { Found(TRUE, NoPage, "q"), Found(FALSE, NoPage, "q") }
    \cup { Found(TRUE, a, "q") : a \in Articles }
    \cup { Found(TRUE, NoPage, q) : q \in Queries }

\* line 346: searchQuery.trim()
trimmed(q) == IF q = " " THEN "" ELSE q

\* What RateLimiter.canMakeRequest() answers to the controller.
GateResults == {Allowed, Denied(1000, "rate_limit"), Denied(INITIAL_BACKOFF, "backoff")}

\* The errors a port delivers (part_001, lines 131-178, background.js): the
\* relay's own check denied, HTTP 429 with no backoff stored, HTTP 400, a
\* failed fetch, another status.
PortErrors ==
  { gateError(Denied(1000, "rate_limit")), throttledError(nextBackoff(0)),
    invalidKeyError, networkError, upstreamError(500, FALSE) }

\* content.innerHTML.  tag: "none" (nothing rendered yet), "loading", "info",
\* "markdown" (of `text`) or "error" (of `message`); retry: the retry button is
\* there; countdownMs: the time the countdown paragraph was rendered for (0: no
\* such paragraph).
view(tag, message, text, retry, countdownMs) ==
  [tag |-> tag, message |-> message, text |-> text, retry |-> retry, countdownMs |-> countdownMs]

NoView == view("none", "", <<>>, FALSE, 0)

\* lines 194, 291, 314: the spinner, whatever its caption
loading == view("loading", "", <<>>, FALSE, 0)

\* lines 183-184
info == view("info", "Ask a question about this page", <<>>, FALSE, 0)

\* lines 379-382
markdown(text) == view("markdown", "", text, FALSE, 0)

\* lines 245-252
errorView(message, showRetry, autoRetryMs) ==
  view("error", message, <<>>, showRetry /\ autoRetryMs = 0, IF autoRetryMs > 0 THEN autoRetryMs ELSE 0)

\* lines 188-190: a pending timeout of switchMode: the mode it will run and the
\* time left to it.  The other fields observe it: age is the time since it was
\* set, burst tells whether a timeout was pending when it was set.
timeout(mode, left, age, burst) == [mode |-> mode, left |-> left, age |-> age, burst |-> burst]

NoTimeout == timeout("none", 0, 0, FALSE)

\* lines 87-91.  abortController is the number of the run that made the
\* controller the variable holds (0: null), aborted tells whether that
\* controller's signal is aborted; no other controller can be reached.
\* timeouts holds the pending timeouts of switchMode, debounceTimer the one
\* the variable refers to (NoTimeout: none that is pending).  countdownInterval tells whether the
\* variable holds an interval that is still running, countdownLeft is that
\* interval's endTime - Date.now(); stale holds endTime - Date.now() (0 once
\* negative) of the running intervals the variable no longer holds.  started
\* counts the invocations of runBriefrr; open tells whether the drawer is open.
\* The other fields observe the session: retryMode is the mode of the run that
\* started the interval countdownInterval holds, closed tells whether the
\* drawer was closed by the user with no user action since.
InitSession ==
  [currentMode |-> "highlights", isStreaming |-> FALSE, abortController |-> 0,
   aborted |-> FALSE, timeouts |-> {}, debounceTimer |-> NoTimeout,
   countdownInterval |-> FALSE, countdownLeft |-> 0, stale |-> {},
   started |-> 0, open |-> FALSE, content |-> NoView,
   retryMode |-> "none", closed |-> FALSE]

\* One invocation of runBriefrr.  mode: its argument; pc: "gate" (line 296),
\* "apikey" (line 317), "streaming" (line 365), "settled" (returned).  port: the
\* state of its port; listening: its abort listener is registered on the
\* controller that abortController holds.  The other fields
\* observe it: trigger tells what invoked it; disconnectCalls counts
\* port.disconnect(); received holds the texts
\* of the chunks delivered to it; gotDone tells whether done was delivered;
\* terminated whether the other end sent its terminal message; superseded
\* whether runBriefrr was invoked again while its port was open; cancelled
\* whether abort() was called on the controller it made (line 284); found is what
\* it read of the key, the article and the query (for a run that was denied, the
\* article is what extractContent() would have returned at that moment).
NoRun ==
  [pc |-> "none", mode |-> "none", port |-> "none", listening |-> FALSE, accumulated |-> <<>>,
   outcome |-> "none", trigger |-> "none",
   disconnectCalls |-> 0, received |-> <<>>, gotDone |-> FALSE, terminated |-> FALSE,
   superseded |-> FALSE, cancelled |-> FALSE, found |-> Found(TRUE, NoPage, "q")]

\* line 375, 398, 409: abortController.signal.aborted, of the controller the
\* module variable holds when the test is made
signalAborted(s) == s.aborted

\* lines 370, 388, 391: port.disconnect()
disconnect(r) ==
  [r EXCEPT !.port = IF r.port = "open" THEN "closed" ELSE r.port,
            !.disconnectCalls = r.disconnectCalls + 1]

\* line 432: the promise of line 365 resolved
resumeResolved(r, how) == [r EXCEPT !.pc = "settled", !.outcome = how]

\* lines 369-372: the abort listeners run
abortListeners(rs) ==
  [n \in RunIds |->
     IF rs[n].listening
     THEN IF rs[n].pc = "streaming"
          THEN resumeResolved(disconnect(rs[n]), "aborted")
          ELSE disconnect(rs[n])
     ELSE rs[n]]

\* abortController.abort(): the listeners run the first time only
abort(s, rs) ==
  IF s.abortController = 0 \/ signalAborted(s)
  THEN [s |-> s, rs |-> rs]
  ELSE [s |-> [s EXCEPT !.aborted = TRUE],
        rs |-> abortListeners([rs EXCEPT ![s.abortController].cancelled = TRUE])]

\* lines 281, 211, 261: clearInterval(countdownInterval)
clearCountdown(s) ==
  [s EXCEPT !.countdownInterval = FALSE, !.countdownLeft = 0, !.retryMode = "none"]

\* (mutant) lines 165, 210 without clearTimeout
clearDebounce_forgets(s) == [s EXCEPT !.debounceTimer = NoTimeout]

\* lines 165, 210: clearTimeout(debounceTimer)
clearDebounce(s) ==
  [s EXCEPT !.timeouts = s.timeouts \ {s.debounceTimer}, !.debounceTimer = NoTimeout]

\* (mutant) line 190 with another delay
debounceDelay_long == DEBOUNCE_DELAY + PAUSE

\* line 190
debounceDelay == DEBOUNCE_DELAY

\* lines 188-190: debounceTimer = setTimeout(() => runBriefrr(newMode), 500)
setDebounce(s, newMode, burst) ==
  LET t == timeout(newMode, debounceDelay, 0, burst) IN
  [s EXCEPT !.timeouts = s.timeouts \cup {t}, !.debounceTimer = t]

\* (mutant) line 256 with the time of an earlier countdown
endTime_short(autoRetryMs) == autoRetryMs - 1000

\* line 256: endTime = Date.now() + autoRetryMs, as the time left to it
endTime(autoRetryMs) == autoRetryMs

\* lines 243-274: showError(message, showRetry, autoRetryMs), called by a run of
\* the given mode; with autoRetryMs > 0 it starts an interval and stores it in
\* countdownInterval, whatever that variable held.
showError(s, mode, message, showRetry, autoRetryMs) ==
  LET s1 == [s EXCEPT !.content = errorView(message, showRetry, autoRetryMs)] IN
  IF autoRetryMs > 0
  THEN [s1 EXCEPT !.countdownInterval = TRUE,
                  !.countdownLeft = endTime(autoRetryMs),
                  !.retryMode = mode,
                  !.stale = IF s.countdownInterval THEN s.stale \cup {s.countdownLeft} ELSE s.stale]
  ELSE s1

\* (mutant) line 260 without the test
expired_early(left) == TRUE

\* lines 259-260: remaining = endTime - Date.now(); remaining <= 0
expired(left) == left <= 0

\* (mutant) line 378 with `=` for `+=`
accumulate_overwrite(accumulated, text) == text

\* line 378: accumulated += msg.text
accumulate(accumulated, text) == accumulated \o text

\* Runs resumed by a step go on to line 432 once the step's own code has run.
resumed(rs0, rs1) == \E n \in RunIds : rs0[n].pc = "streaming" /\ rs1[n].pc = "settled"

\* A run is live until its controller is replaced or aborted.
live(s, n) == s.abortController = n /\ ~s.aborted

\* The locals of an invocation that has returned, and what was observed of it,
\* are kept while the run is live.
Returned(r) == [NoRun EXCEPT !.pc = "settled", !.port = r.port]

forget(s, rs) ==
  [n \in RunIds |-> IF rs[n].pc = "settled" /\ ~live(s, n) THEN Returned(rs[n]) ELSE rs[n]]

\* lines 279-296: runBriefrr(mode), to its first await, followed by line 432 of
\* the runs it resumed
runBriefrr(s, rs, mode) ==
  LET n  == s.started + 1
      s1 == clearCountdown(s)
      a  == IF s1.isStreaming /\ s1.abortController # 0
            THEN abort(s1, rs)
            ELSE [s |-> s1, rs |-> rs]
      rs1 == [m \in RunIds |->
                [a.rs[m] EXCEPT !.listening = FALSE,
                                !.superseded = a.rs[m].superseded \/ rs[m].port = "open"]]
  IN [s  |-> [a.s EXCEPT !.abortController = n,
                         !.aborted = FALSE,
                         !.isStreaming = ~resumed(rs, a.rs),
                         !.currentMode = mode,
                         !.open = TRUE,
                         !.content = loading,
                         !.started = n],
      rs |-> [rs1 EXCEPT ![n] = [NoRun EXCEPT !.pc = "gate", !.mode = mode]]]

\* An invocation of runBriefrr by the given trigger.
invoke(s, rs, mode, trigger) ==
  LET a == runBriefrr(s, rs, mode) IN
  [s |-> a.s, rs |-> forget(a.s, [a.rs EXCEPT ![a.s.started].trigger = trigger])]

\* line 440, lines 149-157, line 272: a run requested by the popup, by a
\* submitted query or by the retry button
RunRequested(mode) ==
  /\ sess.started < MaxRuns
  /\ LET a == invoke([sess EXCEPT !.closed = FALSE], runs, mode, "user") IN
       /\ sess' = a.s
       /\ runs' = a.rs

\* lines 163-195: switchMode(newMode), by a mode button of the open drawer
switchMode(newMode) ==
  /\ sess.open
  /\ LET burst == sess.timeouts # {}
         s1 == [clearDebounce(sess) EXCEPT !.currentMode = newMode, !.closed = FALSE]
     IN sess' = IF newMode = "search"
                THEN [s1 EXCEPT !.content = info]
                ELSE [setDebounce(s1, newMode, burst) EXCEPT !.content = loading]
  /\ sess' # sess
  /\ UNCHANGED runs

\* lines 188-190: a timeout of switchMode runs
DebounceFires(t) ==
  /\ t \in sess.timeouts
  /\ t.left = 0
  /\ sess.started < MaxRuns
  /\ LET s1 == [sess EXCEPT !.timeouts = sess.timeouts \ {t},
                            !.debounceTimer = IF sess.debounceTimer = t THEN NoTimeout
                                              ELSE sess.debounceTimer]
         a == invoke(s1, runs, t.mode, "debounce")
     IN /\ sess' = a.s
        /\ runs' = a.rs

\* lines 258-263: the interval that countdownInterval holds finds its time over
CountdownExpires ==
  /\ sess.countdownInterval
  /\ expired(sess.countdownLeft)
  /\ sess.started < MaxRuns
  /\ LET a == invoke(clearCountdown(sess), runs, sess.currentMode, "countdown") IN
       /\ sess' = a.s
       /\ runs' = a.rs

\* lines 208-216: closeDrawer(), by the close button of the open drawer,
\* followed by line 432 of the runs it resumed
closeDrawer ==
  /\ sess.open
  /\ LET a == abort(sess, runs) IN
       /\ sess' = [clearCountdown(clearDebounce(a.s)) EXCEPT
                     !.open = FALSE,
                     !.closed = TRUE,
                     !.isStreaming = IF resumed(runs, a.rs) THEN FALSE ELSE a.s.isStreaming]
       /\ runs' = forget(sess', a.rs)

\* The time left to the timers that have not run out.
Deadlines(s) ==
  { d \in { t.left : t \in s.timeouts }
            \cup (IF s.countdownInterval THEN {s.countdownLeft} ELSE {})
            \cup s.stale : d > 0 }

Earliest(S) == CHOOSE d \in S : \A e \in S : d <= e

aged(t, d) == [t EXCEPT !.left = t.left - d, !.age = t.age + d]

elapse(s, d) ==
  [s EXCEPT !.timeouts = { aged(t, d) : t \in s.timeouts },
            !.debounceTimer = IF s.debounceTimer \in s.timeouts THEN aged(s.debounceTimer, d)
                              ELSE s.debounceTimer,
            !.countdownLeft = IF s.countdownInterval THEN s.countdownLeft - d ELSE 0,
            !.stale = { IF e > d THEN e - d ELSE 0 : e \in s.stale }]

\* A timeout, or the interval that countdownInterval holds, is due: it runs
\* before anything else happens.
Due ==
  \/ \E t \in sess.timeouts : t.left = 0
  \/ sess.countdownInterval /\ expired(sess.countdownLeft)

\* Time passes until the next timer is due.
TimePasses ==
  /\ sess.started < MaxRuns
  /\ ~Due
  /\ Deadlines(sess) # {}
  /\ sess' = elapse(sess, Earliest(Deadlines(sess)))
  /\ UNCHANGED runs

\* Right after a mode was selected, less time passes than the debounce takes.
Pause ==
  /\ sess.debounceTimer \in sess.timeouts
  /\ sess.debounceTimer.age = 0
  /\ Earliest(Deadlines(sess)) > PAUSE
  /\ sess' = elapse(sess, PAUSE)
  /\ UNCHANGED runs

\* lines 299-303: the message of a denied check
deniedMessage(res) ==
  IF res.reason = "backoff"
  THEN "Rate limit cooldown active. Too many requests were made."
  ELSE "Please wait before making another request."

\* line 432, and the returns of lines 306, 321, 331, 337, 349
returns(s) == [s EXCEPT !.isStreaming = FALSE]

\* lines 296-314: canMakeRequest() resolves for run n; article is what
\* extractContent() would return at this moment.
GateResolves(n, res, article) ==
  /\ runs[n].pc = "gate"
  /\ IF res.allowed
     THEN /\ article = NoPage
          /\ runs' = [runs EXCEPT ![n].pc = "apikey"]
          /\ sess' = [sess EXCEPT !.content = loading]
     ELSE /\ sess' = returns(showError(sess, runs[n].mode, deniedMessage(res), FALSE, res.remainingMs))
          /\ runs' = forget(sess', [runs EXCEPT ![n].pc = "settled", ![n].outcome = "denied",
                                                ![n].found = Found(TRUE, article, "q")])

\* (mutant) lines 317-350 without the returns
stopped_never(mode, hasKey, article, query) == ""

\* lines 317-350: what stops the run once Storage.getApiKey() resolved
stopped(mode, hasKey, article, query) ==
  IF ~hasKey THEN "Please set up your Gemini API key first."
  ELSE IF article.throws THEN "Couldn't extract content from this page."
  ELSE IF article.length = 0 \/ article.length < MIN_CONTENT
       THEN "Couldn't extract meaningful content from this page."
  ELSE IF mode = "search" /\ trimmed(query) = "" THEN "Please enter a search query."
  ELSE ""

\* lines 317-346: what the run reads: the key, then the article if there is a
\* key, then the query if the mode is search and the article can be used
read(mode, hasKey, article, query) ==
  LET a == IF hasKey THEN article ELSE NoPage
      q == IF hasKey /\ mode = "search" /\ ~a.throws /\ a.length >= MIN_CONTENT THEN query ELSE "q"
  IN Found(hasKey, a, q)

\* lines 317-350: Storage.getApiKey() resolves; there is no key, no content or
\* no query.
RunGivesUp(n, hasKey, article, query) ==
  /\ runs[n].pc = "apikey"
  /\ stopped(runs[n].mode, hasKey, article, query) # ""
  /\ sess' = returns(showError(sess, runs[n].mode, stopped(runs[n].mode, hasKey, article, query), FALSE, 0))
  /\ runs' = forget(sess', [runs EXCEPT ![n].pc = "settled", ![n].outcome = "gave up",
                                        ![n].found = read(runs[n].mode, hasKey, article, query)])

\* lines 317-406: Storage.getApiKey() resolves; the port is opened, the
\* listeners are registered and the request is sent.
PortOpens(n, hasKey, article, query) ==
  /\ runs[n].pc = "apikey"
  /\ stopped(runs[n].mode, hasKey, article, query) = ""
  /\ runs' = [runs EXCEPT ![n].pc = "streaming", ![n].port = "open",
                          ![n].listening = TRUE,
                          ![n].found = read(runs[n].mode, hasKey, article, query)]
  /\ UNCHANGED sess

\* lines 374-383: a chunk message arrives
ChunkArrives(n) ==
  /\ runs[n].port = "open" /\ ~runs[n].terminated
  /\ Len(runs[n].received) < MaxChunks
  /\ LET text == ChunkText(Len(runs[n].received) + 1) IN
       IF signalAborted(sess)
       THEN /\ runs' = [runs EXCEPT ![n].received = Append(runs[n].received, text)]
            /\ UNCHANGED sess
       ELSE /\ runs' = [runs EXCEPT ![n].received = Append(runs[n].received, text),
                                    ![n].accumulated = accumulate(runs[n].accumulated, text)]
            /\ sess' = [sess EXCEPT !.content = markdown(accumulate(runs[n].accumulated, text))]

\* lines 374-375, 384-389, 432: the done message arrives
DoneArrives(n) ==
  /\ runs[n].port = "open" /\ ~runs[n].terminated
  /\ IF signalAborted(sess)
     THEN /\ runs' = [runs EXCEPT ![n].terminated = TRUE, ![n].gotDone = TRUE]
          /\ UNCHANGED sess
     ELSE /\ sess' = returns(sess)
          /\ runs' = forget(sess', [runs EXCEPT ![n] =
                        [resumeResolved(disconnect(runs[n]), "ok") EXCEPT
                           !.terminated = TRUE, !.gotDone = TRUE]])

\* (mutant) lines 413-419 missing: a throttling error is handled as any other
catch_noCountdown(s, mode, e) ==
  IF e.kind = "INVALID_KEY"
  THEN showError(s, mode, "Your API key seems invalid. Please check it in Settings.", TRUE, 0)
  ELSE showError(s, mode, "The response was interrupted.", TRUE, 0)

\* lines 408-430: the catch clause, on an error message that the port delivered
\* or on the error of line 399
catch(s, mode, e) ==
  IF e.kind = "INVALID_KEY"
  THEN showError(s, mode, "Your API key seems invalid. Please check it in Settings.", TRUE, 0)
  ELSE IF e.kind = "RATE_LIMITED"
  THEN showError(s, mode, e.text, FALSE, e.ms)
  ELSE IF e.text = "Failed to fetch"
  THEN showError(s, mode, "Couldn't connect to Gemini. Please check your internet connection.", TRUE, 0)
  ELSE showError(s, mode, "The response was interrupted.", TRUE, 0)

\* line 399
connectionLost == errorMessage("Error", 0, "Connection to extension lost. Please try again.", NoWait)

\* lines 374-375, 390-393, 408-432: an error message arrives
ErrorArrives(n, e) ==
  /\ runs[n].port = "open" /\ ~runs[n].terminated
  /\ IF signalAborted(sess)
     THEN /\ runs' = [runs EXCEPT ![n].terminated = TRUE]
          /\ UNCHANGED sess
     ELSE /\ sess' = returns(catch(sess, runs[n].mode, e))
          /\ runs' = forget(sess', [runs EXCEPT ![n] =
                        [disconnect(runs[n]) EXCEPT
                           !.pc = "settled", !.outcome = "error", !.terminated = TRUE]])

\* (mutant) line 398 without the test of accumulated
lostBeforeText_whatever(aborted, accumulated) == ~aborted

\* line 398: `!abortController.signal.aborted && !accumulated`
lostBeforeText(aborted, accumulated) == ~aborted /\ accumulated = <<>>

\* lines 396-403, 408-432: the other end of the port goes away
PortLost(n) ==
  /\ runs[n].port = "open"
  /\ LET r == [runs[n] EXCEPT !.port = "closed"] IN
       IF lostBeforeText(signalAborted(sess), r.accumulated)
       THEN /\ sess' = returns(catch(sess, r.mode, connectionLost))
            /\ runs' = forget(sess', [runs EXCEPT ![n] = [r EXCEPT !.pc = "settled", !.outcome = "error"]])
       ELSE /\ sess' = returns(sess)
            /\ runs' = forget(sess', [runs EXCEPT ![n] = resumeResolved(r, "ok")])

LimiterIdle ==
  /\ now = StartTime
  /\ ticks = 0
  /\ store = <<>>
  /\ call = [p \in Procs |-> IdleCall]
  /\ orphans = {}
  /\ gh = InitHistory

SessionIdle ==
  /\ sess = InitSession
  /\ runs = [n \in RunIds |-> NoRun]
  /\ acts = 0

\* No execution of streamGeminiResponse besides the relay's; no call of
\* formatTimeRemaining besides those of the error messages.
AuxIdle ==
  /\ chans = [p \in Procs |-> IdleChan]
  /\ fmt = NoFormat

InitStream ==
  /\ LimiterIdle
  /\ SessionIdle
  /\ AuxIdle
  /\ relay = IdleRelay
  /\ \E b \in Bodies : dec = openBody(b)

NextStream ==
  \/ \E k \in 1..(MaxFrames * 12) : StreamRead(k) /\ UNCHANGED <<ctlVars, auxVars>>
  \/ StreamEnd /\ UNCHANGED <<ctlVars, auxVars>>

\* streamGeminiResponse reading one response body, cut into reads in any way.
SpecStream == InitStream /\ [][NextStream]_vars

-----------------------------------------------------------------------------
(* The relay: part_000 lines 33-53 and part_001 lines 128-210.  The code that  *)
(* runs when an awaited promise resolves runs in the same step as the          *)
(* resolution.                                                                 *)

\* No backoff window is active at time t: none is stored, or
\* t >= lastRequestTime + backoffDelay.
windowElapsed(s, t) ==
  ~backoffActive(getLastRequestTime(s), getRetryBackoff(s), t)

\* part_000 lines 33-38, part_001 line 130: a port is connected, the request
\* arrives and the relay's check is started.
RelayRequest ==
  /\ relay.pc \in {"idle", "finished", "stopped"}
  /\ relay.nreq < MaxRequests
  /\ canMakeRequest_call("relay")
  /\ relay' = [IdleRelay EXCEPT !.pc = "gate", !.port = "open", !.nreq = relay.nreq + 1,
                                !.streak = relay.streak,
                                !.waited = IF relay.streak = 0 THEN TRUE
                                           ELSE relay.waited /\ windowElapsed(store, now)]
  /\ dec' = NoBody

\* part_001 lines 130-140: the check goes on; when it resolves, the request is
\* refused (the error is thrown and sent) or recordRequest() is called.
afterGate(r, res, t, changed) ==
  IF ~proceeds(res)
  THEN [onThrow(r, gateError(res)) EXCEPT !.gate = res, !.wrote = r.wrote \/ changed]
  ELSE [r EXCEPT !.pc = "record", !.gate = res, !.stamp = t, !.recorded = TRUE,
                 !.wrote = r.wrote \/ changed]

RelayGate ==
  /\ relay.pc = "gate"
  /\ \/ canMakeRequest_getLast("relay")
     \/ canMakeRequest_getBackoff("relay")
     \/ canMakeRequest_clear("relay")
     \/ canMakeRequest_timeout("relay")
     \/ canMakeRequest_fail("relay")
  /\ relay' = IF call'["relay"].pc = "ret"
              THEN afterGate(relay, call'["relay"].result, now, store' # store)
              ELSE [relay EXCEPT !.wrote = relay.wrote \/ store' # store]
  /\ UNCHANGED dec

\* part_001 lines 140-159: Storage.setLastRequestTime resolves; fetch() is called.
RelayRecorded ==
  /\ relay.pc = "record"
  /\ store' = setLastRequestTime(store, relay.stamp)
  /\ gh' = [gh EXCEPT !.recAt = relay.stamp]
  /\ relay' = [relay EXCEPT !.pc = "fetch", !.fetches = relay.fetches + 1, !.wrote = TRUE]
  /\ UNCHANGED <<now, ticks, call, orphans, dec>>

\* part_001 lines 144-162, 181-182: fetch() resolves with a response.
RelayResponse(status) ==
  /\ relay.pc = "fetch"
  /\ relay' = [relay EXCEPT !.pc = IF ok(status) THEN "success" ELSE "errbody",
                            !.status = status,
                            !.streak = IF status = 429 THEN relay.streak ELSE 0]
  /\ UNCHANGED <<limVars, dec>>

\* part_001 line 144: fetch() rejects.
RelayFetchFails ==
  /\ relay.pc = "fetch"
  /\ relay' = [onThrow(relay, networkError) EXCEPT !.streak = 0]
  /\ UNCHANGED <<limVars, dec>>

\* part_001 lines 162-178: response.text() resolves.  On 429
\* recordRateLimitError() is called, which issues its storage read.
RelayErrorBody(hasMessage) ==
  /\ relay.pc = "errbody"
  /\ LET r == [relay EXCEPT !.bodyRead = TRUE, !.hasMessage = hasMessage] IN
       relay' = CASE classify(relay.status) = "invalid" -> onThrow(r, invalidKeyError)
                  [] classify(relay.status) = "throttled" ->
                       [r EXCEPT !.pc = "recerr", !.errCalls = r.errCalls + 1,
                                 !.streak = IF call["relay"].why = "check"
                                            THEN r.streak + 1 ELSE 0]
                  [] OTHER -> onThrow(r, upstreamError(relay.status, hasMessage))
  /\ UNCHANGED <<limVars, dec>>

\* part_001 line 162: response.text() rejects.
RelayErrorBodyFails ==
  /\ relay.pc = "errbody"
  /\ relay' = [onThrow(relay, networkError) EXCEPT !.streak = 0]
  /\ UNCHANGED <<limVars, dec>>

\* part_001 lines 173-175: recordRateLimitError() goes on; when it returns, the
\* error carrying the returned delay is thrown.
RelayRecordError ==
  /\ relay.pc = "recerr"
  /\ \/ recordRateLimitError_get("relay")
     \/ recordRateLimitError_set("relay")
  /\ relay' = IF call'["relay"].pc = "ret"
              THEN [onThrow(relay, throttledError(call'["relay"].cur)) EXCEPT !.wrote = TRUE]
              ELSE relay
  /\ UNCHANGED dec

\* part_001 lines 182-189: Storage.clearRetryBackoff() resolves; the first read
\* of the body is issued.
RelaySuccess(body) ==
  /\ relay.pc = "success"
  /\ store' = clearRetryBackoff(store)
  /\ gh' = onClear(gh)
  /\ relay' = [relay EXCEPT !.pc = "reading", !.wrote = TRUE]
  /\ dec' = openBody(body)
  /\ UNCHANGED <<now, ticks, call, orphans>>

\* part_001 lines 188-208, part_000 lines 39-48: a read resolves with k bytes.
RelayRead(k) ==
  /\ relay.pc = "reading"
  /\ k \in 1..(Len(dec.body) - dec.pos)
  /\ LET d == afterRead(dec, k) IN
       /\ dec' = d
       /\ relay' = onYield(relay, SubSeq(d.out, Len(dec.out) + 1, Len(d.out)),
                           d.state = "returned")
  /\ UNCHANGED limVars

\* part_001 line 190, part_000 line 48: the body is exhausted.
RelayReadEnd ==
  /\ relay.pc = "reading"
  /\ dec.pos = Len(dec.body)
  /\ dec' = afterEnd(dec)
  /\ relay' = onYield(relay, <<>>, TRUE)
  /\ UNCHANGED limVars

\* part_001 line 189: reader.read() rejects.
RelayReadFails ==
  /\ relay.pc = "reading"
  /\ dec' = afterEnd(dec)
  /\ relay' = onThrow(relay, networkError)
  /\ UNCHANGED limVars

\* The other end disconnects the port.
PortDisconnect ==
  /\ relay.port = "open"
  /\ relay.pc \notin {"idle", "finished", "stopped"}
  /\ relay' = [relay EXCEPT !.port = "closed"]
  /\ UNCHANGED <<limVars, dec>>

InitRelay ==
  /\ LimiterIdle
  /\ SessionIdle
  /\ AuxIdle
  /\ dec = NoBody
  /\ relay = IdleRelay

NextRelay ==
  \/ \E d \in Deltas : Tick(d) /\ UNCHANGED <<dec, relay, ctlVars, auxVars>>
  \/ RelayRequest /\ UNCHANGED <<ctlVars, auxVars>>
  \/ RelayGate /\ UNCHANGED <<ctlVars, auxVars>>
  \/ RelayRecorded /\ UNCHANGED <<ctlVars, auxVars>>
  \/ \E st \in Statuses : RelayResponse(st) /\ UNCHANGED <<ctlVars, auxVars>>
  \/ RelayFetchFails /\ UNCHANGED <<ctlVars, auxVars>>
  \/ \E hm \in BOOLEAN : RelayErrorBody(hm) /\ UNCHANGED <<ctlVars, auxVars>>
  \/ RelayErrorBodyFails /\ UNCHANGED <<ctlVars, auxVars>>
  \/ RelayRecordError /\ UNCHANGED <<ctlVars, auxVars>>
  \/ \E b \in RelayBodies : RelaySuccess(b) /\ UNCHANGED <<ctlVars, auxVars>>
  \/ \E k \in {7, 10, 20} : RelayRead(k) /\ UNCHANGED <<ctlVars, auxVars>>
  \/ RelayReadEnd /\ UNCHANGED <<ctlVars, auxVars>>
  \/ RelayReadFails /\ UNCHANGED <<ctlVars, auxVars>>
  \/ PortDisconnect /\ UNCHANGED <<ctlVars, auxVars>>
  \/ \E c \in orphans : orphanStep(c) /\ UNCHANGED <<dec, relay, ctlVars, auxVars>>
  \/ \E c \in orphans : orphanDrop(c) /\ UNCHANGED <<dec, relay, ctlVars, auxVars>>

\* The relay handling requests one after another.
SpecRelay == InitRelay /\ [][NextRelay]_vars

-----------------------------------------------------------------------------
(* The limiter driven through its interface by one process, in any order. *)

InitLimiter ==
  /\ LimiterIdle
  /\ SessionIdle
  /\ AuxIdle
  /\ dec = NoBody
  /\ relay = IdleRelay

NextLimiter ==
  \/ \E d \in Deltas : Tick(d) /\ UNCHANGED <<dec, relay, ctlVars, auxVars>>
  \/ canMakeRequest_call("relay") /\ UNCHANGED <<dec, relay, ctlVars, auxVars>>
  \/ canMakeRequest_getLast("relay") /\ UNCHANGED <<dec, relay, ctlVars, auxVars>>
  \/ canMakeRequest_getBackoff("relay") /\ UNCHANGED <<dec, relay, ctlVars, auxVars>>
  \/ canMakeRequest_clear("relay") /\ UNCHANGED <<dec, relay, ctlVars, auxVars>>
  \/ canMakeRequest_timeout("relay") /\ UNCHANGED <<dec, relay, ctlVars, auxVars>>
  \/ canMakeRequest_fail("relay") /\ UNCHANGED <<dec, relay, ctlVars, auxVars>>
  \/ recordRequest("relay") /\ UNCHANGED <<dec, relay, ctlVars, auxVars>>
  \/ recordSuccess("relay") /\ UNCHANGED <<dec, relay, ctlVars, auxVars>>
  \/ recordRateLimitError_get("relay") /\ UNCHANGED <<dec, relay, ctlVars, auxVars>>
  \/ recordRateLimitError_set("relay") /\ UNCHANGED <<dec, relay, ctlVars, auxVars>>
  \/ \E c \in orphans : orphanStep(c) /\ UNCHANGED <<dec, relay, ctlVars, auxVars>>
  \/ \E c \in orphans : orphanDrop(c) /\ UNCHANGED <<dec, relay, ctlVars, auxVars>>

SpecLimiter == InitLimiter /\ [][NextLimiter]_vars

-----------------------------------------------------------------------------
(* The controller driven by the user, its timers and its ports. *)

InitController ==
  /\ LimiterIdle
  /\ SessionIdle
  /\ AuxIdle
  /\ dec = NoBody
  /\ relay = IdleRelay

NextController ==
  \/ \E mode \in Modes : RunRequested(mode) /\ UNCHANGED <<limVars, dec, relay, acts, auxVars>>
  \/ \E mode \in Modes : switchMode(mode) /\ UNCHANGED <<limVars, dec, relay, acts, auxVars>>
  \/ closeDrawer /\ UNCHANGED <<limVars, dec, relay, acts, auxVars>>
  \/ \E n \in RunIds, res \in GateResults, article \in Articles :
       GateResolves(n, res, article) /\ UNCHANGED <<limVars, dec, relay, acts, auxVars>>
  \/ \E n \in RunIds, f \in Findings :
       RunGivesUp(n, f.hasKey, f.article, f.query) /\ UNCHANGED <<limVars, dec, relay, acts, auxVars>>
  \/ \E n \in RunIds, f \in Findings :
       PortOpens(n, f.hasKey, f.article, f.query) /\ UNCHANGED <<limVars, dec, relay, acts, auxVars>>
  \/ \E n \in RunIds : ChunkArrives(n) /\ UNCHANGED <<limVars, dec, relay, acts, auxVars>>
  \/ \E n \in RunIds : DoneArrives(n) /\ UNCHANGED <<limVars, dec, relay, acts, auxVars>>
  \/ \E n \in RunIds, e \in PortErrors : ErrorArrives(n, e) /\ UNCHANGED <<limVars, dec, relay, acts, auxVars>>
  \/ \E n \in RunIds : PortLost(n) /\ UNCHANGED <<limVars, dec, relay, acts, auxVars>>

SpecController == InitController /\ [][NextController]_vars

\* content.js line 296: the check of run n resolves.
GateStep(n) ==
  \E res \in GateResults, article \in Articles :
    GateResolves(n, res, article) /\ UNCHANGED <<limVars, dec, relay, acts, auxVars>>

\* content.js line 317: the read of the key resolves for run n.
KeyStep(n) ==
  \E f \in Findings :
    /\ RunGivesUp(n, f.hasKey, f.article, f.query) \/ PortOpens(n, f.hasKey, f.article, f.query)
    /\ UNCHANGED <<limVars, dec, relay, acts, auxVars>>

\* part_000 lines 48-50: the relay sends its terminal message on the port of run
\* n, or the port is closed before it did.
PortStep(n) ==
  /\ ~runs[n].terminated
  /\ DoneArrives(n) \/ (\E e \in PortErrors : ErrorArrives(n, e)) \/ PortLost(n)
  /\ UNCHANGED <<limVars, dec, relay, acts, auxVars>>

\* The controller when the storage calls of every run resolve and every port
\* delivers a terminal message or is closed.
FairController ==
  /\ SpecController
  /\ \A n \in RunIds : WF_vars(GateStep(n)) /\ WF_vars(KeyStep(n)) /\ WF_vars(PortStep(n))

-----------------------------------------------------------------------------
(* The controller with its timers, its ports, and a user who acts MaxActions   *)
(* times: who selects modes and closes the drawer at any time, and asks for a  *)
(* run when none is in flight (SpecController has the runs asked for while     *)
(* another is in flight).                                                      *)

\* No invocation of runBriefrr is suspended.
Quiet == \A n \in RunIds : runs[n].pc \in {"none", "settled"}

\* One more action of the user.
User ==
  /\ acts < MaxActions
  /\ acts' = acts + 1

InitSession_ ==
  /\ LimiterIdle
  /\ SessionIdle
  /\ AuxIdle
  /\ dec = NoBody
  /\ relay = IdleRelay

NextSession ==
  \/ \E mode \in Modes : (~Due /\ User /\ Quiet /\ RunRequested(mode)) /\ UNCHANGED <<limVars, dec, relay, auxVars>>
  \/ \E mode \in Modes : (~Due /\ User /\ switchMode(mode)) /\ UNCHANGED <<limVars, dec, relay, auxVars>>
  \/ \E t \in sess.timeouts : DebounceFires(t) /\ UNCHANGED <<limVars, dec, relay, acts, auxVars>>
  \/ CountdownExpires /\ UNCHANGED <<limVars, dec, relay, acts, auxVars>>
  \/ (~Due /\ User /\ closeDrawer) /\ UNCHANGED <<limVars, dec, relay, auxVars>>
  \/ TimePasses /\ UNCHANGED <<limVars, dec, relay, acts, auxVars>>
  \/ Pause /\ UNCHANGED <<limVars, dec, relay, acts, auxVars>>
  \/ \E n \in RunIds, res \in GateResults, article \in Articles :
       (~Due /\ GateResolves(n, res, article)) /\ UNCHANGED <<limVars, dec, relay, acts, auxVars>>
  \/ \E n \in RunIds, f \in Findings :
       (~Due /\ RunGivesUp(n, f.hasKey, f.article, f.query)) /\ UNCHANGED <<limVars, dec, relay, acts, auxVars>>
  \/ \E n \in RunIds, f \in Findings :
       (~Due /\ PortOpens(n, f.hasKey, f.article, f.query)) /\ UNCHANGED <<limVars, dec, relay, acts, auxVars>>
  \/ \E n \in RunIds : (~Due /\ ChunkArrives(n)) /\ UNCHANGED <<limVars, dec, relay, acts, auxVars>>
  \/ \E n \in RunIds : (~Due /\ DoneArrives(n)) /\ UNCHANGED <<limVars, dec, relay, acts, auxVars>>
  \/ \E n \in RunIds, e \in PortErrors : (~Due /\ ErrorArrives(n, e)) /\ UNCHANGED <<limVars, dec, relay, acts, auxVars>>
  \/ \E n \in RunIds : (~Due /\ PortLost(n)) /\ UNCHANGED <<limVars, dec, relay, acts, auxVars>>

SpecSession == InitSession_ /\ [][NextSession]_vars

\* Timers run when they are due, and time goes on.
FairSession ==
  /\ SpecSession
  /\ WF_vars(\E t \in sess.timeouts : DebounceFires(t) /\ UNCHANGED <<limVars, dec, relay, acts, auxVars>>)
  /\ WF_vars(CountdownExpires /\ UNCHANGED <<limVars, dec, relay, acts, auxVars>>)
  /\ WF_vars(TimePasses /\ UNCHANGED <<limVars, dec, relay, acts, auxVars>>)


-----------------------------------------------------------------------------
(* Two flows of control that use the limiter at the same time: the handlers of *)
(* requests that arrived on two ports (several tabs, or overlapping runs of    *)
(* one tab), and the checks of runs.  Nothing orders the storage requests of   *)
(* one flow with those of the other.  The storage is responsive here: each of  *)
(* its requests resolves before the timer of the check is due (no time passes  *)
(* while a timer is armed), so that no check fails open and none is orphaned;  *)
(* those paths are the matter of SpecLimiter and SpecRelay.                    *)

\* The delays between the steps: the spacing and the first backoff window.
ChannelDeltas == {MIN_REQUEST_DELAY, INITIAL_BACKOFF}

\* The storage answered every request of the execution ch at once: its check
\* resolved on the answers of the store, and the write of recordRequest()
\* resolves in the millisecond the check resolved in.
prompt(ch, t) == ch.responsive /\ ch.stamp = t

\* The latest request of the flow q was answered 429 and recordRateLimitError()
\* has returned its delay (call[q].cur) for it; chans[q].stamp is the time
\* recordRequest() stamped for that request.
Throttled(q) ==
  chans[q].pc = "idle" /\ chans[q].kind = "stream" /\ call[q].op = "recErr" /\ call[q].pc = "ret"

\* part_000 lines 36-40 and part_001 line 130, or content.js line 296: a flow
\* starts and calls canMakeRequest().
ChanStarts(p, kind) ==
  /\ chans[p].pc = "idle"
  /\ chans[p].n < MaxRequests
  /\ canMakeRequest_call(p)
  /\ chans' = [chans EXCEPT ![p] = [chans[p] EXCEPT !.pc = "gate", !.kind = kind,
                                                    !.n = chans[p].n + 1,
                                                    !.after429 = \E q \in Procs : Throttled(q)]]

\* part_001 lines 130-140: the check goes on; when it resolves, a run's check
\* is over, a denied request is refused, and an allowed one calls
\* recordRequest(), which reads Date.now().
ChanGate(p) ==
  /\ chans[p].pc = "gate"
  /\ \/ canMakeRequest_getLast(p)
     \/ canMakeRequest_getBackoff(p)
     \/ canMakeRequest_clear(p)
  /\ chans' = IF call'[p].pc # "ret" THEN chans
              ELSE IF chans[p].kind = "stream" /\ proceeds(call'[p].result)
              THEN [chans EXCEPT ![p] = [chans[p] EXCEPT !.pc = "record", !.stamp = now,
                                          !.responsive = call'[p].why = "check"]]
              ELSE [chans EXCEPT ![p] = [chans[p] EXCEPT !.pc = "idle"]]

\* part_001 lines 140-159: Storage.setLastRequestTime resolves; fetch() is called.
ChanRecorded(p) ==
  /\ chans[p].pc = "record"
  /\ store' = setLastRequestTime(store, chans[p].stamp)
  /\ gh' = [gh EXCEPT !.recAt = chans[p].stamp]
  /\ call' = [call EXCEPT ![p] = IdleCall]
  /\ chans' = [chans EXCEPT ![p] = [chans[p] EXCEPT !.pc = "fetch",
                  !.fetchAt = IF prompt(chans[p], now) THEN now ELSE chans[p].fetchAt]]
  /\ UNCHANGED <<now, ticks, orphans>>

\* part_001 lines 144-182: the upstream answers and, for a failure, the error
\* body is read; recordSuccess() or recordRateLimitError() is called, or the
\* error is thrown.
ChanResponse(p, status) ==
  /\ chans[p].pc = "fetch"
  /\ chans' = [chans EXCEPT ![p] = [chans[p] EXCEPT !.pc =
                  IF ok(status) THEN "success"
                  ELSE IF classify(status) = "throttled" THEN "recerr"
                  ELSE "idle"]]
  /\ UNCHANGED limVars

\* part_001 line 173: recordRateLimitError() goes on; when it returns the error
\* is thrown.
ChanRecordError(p) ==
  /\ chans[p].pc = "recerr"
  /\ \/ recordRateLimitError_get(p)
     \/ recordRateLimitError_set(p)
  /\ chans' = IF call'[p].pc = "ret"
              THEN [chans EXCEPT ![p] = [chans[p] EXCEPT !.pc = "idle"]]
              ELSE chans

\* part_001 line 182: recordSuccess() resolves; the body is read.
ChanSuccess(p) ==
  /\ chans[p].pc = "success"
  /\ recordSuccess(p)
  /\ chans' = [chans EXCEPT ![p] = [chans[p] EXCEPT !.pc = "idle"]]

InitChannels ==
  /\ LimiterIdle
  /\ SessionIdle
  /\ AuxIdle
  /\ dec = NoBody
  /\ relay = IdleRelay

NextChannels ==
  \/ \E d \in ChannelDeltas : Tick(d) /\ UNCHANGED <<dec, relay, ctlVars, auxVars>>
  \/ \E p \in Procs, k \in {"stream", "check"} :
       ChanStarts(p, k) /\ UNCHANGED <<dec, relay, ctlVars, fmt>>
  \/ \E p \in Procs : ChanGate(p) /\ UNCHANGED <<dec, relay, ctlVars, fmt>>
  \/ \E p \in Procs : ChanRecorded(p) /\ UNCHANGED <<dec, relay, ctlVars, fmt>>
  \/ \E p \in Procs, st \in Statuses : ChanResponse(p, st) /\ UNCHANGED <<dec, relay, ctlVars, fmt>>
  \/ \E p \in Procs : ChanRecordError(p) /\ UNCHANGED <<dec, relay, ctlVars, fmt>>
  \/ \E p \in Procs : ChanSuccess(p) /\ UNCHANGED <<dec, relay, ctlVars, fmt>>

SpecChannels == InitChannels /\ [][NextChannels]_vars

-----------------------------------------------------------------------------
(* formatTimeRemaining applied to one argument. *)

\* The arguments: the whole seconds up to MaxSeconds, and the times one
\* millisecond after and one before a whole second.
FormatInputs == { 1000 * sec + d : sec \in 0..MaxSeconds, d \in {0, 1, 999} }

InitFormat ==
  /\ LimiterIdle
  /\ SessionIdle
  /\ dec = NoBody
  /\ relay = IdleRelay
  /\ chans = [p \in Procs |-> IdleChan]
  /\ \E ms \in FormatInputs : fmt = [NoFormat EXCEPT !.ms = ms]

\* part_002, lines 124-133: the call returns
Format ==
  /\ ~fmt.called
  /\ fmt' = [fmt EXCEPT !.called = TRUE, !.out = formatTimeRemaining(fmt.ms)]
  /\ UNCHANGED <<limVars, dec, relay, ctlVars, chans>>

NextFormat == Format

SpecFormat == InitFormat /\ [][NextFormat]_vars

-----------------------------------------------------------------------------
(* Properties of the RateLimiter, checked under SpecLimiter *)

\* C2: after N consecutive recordRateLimitError() calls starting from no stored
\* backoff, with nothing clearing the backoff in between, the stored backoff and
\* the value the N-th call returned are both min(60000 * 2^(N-1), 300000).
C2_BackoffAfterNErrors ==
  (gh.errValid /\ gh.errRun >= 1) =>
    /\ getRetryBackoff(store) = Min(60000 * 2^(gh.errRun - 1), 300000)
    /\ gh.errRet = Min(60000 * 2^(gh.errRun - 1), 300000)

C2_Witness ==
  /\ gh.errValid /\ gh.errRun = 5
  /\ getRetryBackoff(store) = 300000 /\ gh.errRet = 300000

\* The latest RateLimiter call of p was a canMakeRequest() that resolved through
\* its check (storage answered in time).
Checked(p) == call[p].op = "can" /\ call[p].pc = "ret" /\ call[p].why = "check"

\* C6: with no stored backoff, a canMakeRequest() evaluated at time u after a
\* recordRequest() at time t is Denied for spacing with remainingMs = 4000 - (u - t)
\* when u - t < 4000, and Allowed when u - t >= 4000.
C6_SpacingAfterRecordRequest ==
  \A p \in Procs :
    (Checked(p) /\ call[p].chk.backoff = 0 /\ gh.recAt # 0) =>
      LET u == call[p].chk.nowv
          t == gh.recAt
      IN  call[p].result = IF u - t < 4000
                           THEN Denied(4000 - (u - t), "rate_limit")
                           ELSE Allowed

C6_Witness ==
  /\ Checked("relay") /\ call["relay"].chk.backoff = 0
  /\ call["relay"].chk.nowv - gh.recAt = 3000
  /\ call["relay"].result = Denied(1000, "rate_limit")

\* The step in which the check of p reads the backoff and Date.now() and decides.
Evaluates(p) ==
  /\ call[p].op = "can" /\ call[p].pc = "check" /\ call[p].chk.pc = "getBackoff"
  /\ call'[p].chk.pc \in {"final", "clear"} /\ call'[p].why \in {"none", "check"}

C7_InWindow ==
  \A p \in Procs :
    (Evaluates(p) /\ getRetryBackoff(store) > 0) =>
      LET until == getLastRequestTime(store) + getRetryBackoff(store) IN
        IF now < until
        THEN /\ call'[p].pc = "ret"
             /\ call'[p].result = Denied(until - now, "backoff")
             /\ call'[p].result.remainingMs > 0
             /\ store' = store
        ELSE /\ call'[p].pc = "check"
             /\ call'[p].chk.pc = "clear"

C7_AfterWindow ==
  \A p \in Procs :
    (call[p].op = "can" /\ call[p].pc = "check" /\ call[p].chk.pc = "clear"
       /\ call'[p].pc = "ret" /\ call'[p].why = "check") =>
      /\ call'[p].result = Allowed
      /\ "retryBackoff" \notin DOMAIN store'

\* C7: a canMakeRequest() evaluated while a backoff is stored and
\* now < lastRequestTimestamp + backoffDelay is Denied for backoff with
\* remainingMs = lastRequestTimestamp + backoffDelay - now > 0 and changes nothing
\* in the store; evaluated at now >= lastRequestTimestamp + backoffDelay it goes
\* on to remove the stored backoff and is Allowed.
C7_BackoffWindow == [][C7_InWindow /\ C7_AfterWindow]_vars

C7_Witness ==
  /\ Checked("relay")
  /\ call["relay"].chk.backoff > 0
  /\ call["relay"].chk.nowv = call["relay"].chk.last + call["relay"].chk.backoff
  /\ call["relay"].result = Allowed
  /\ "retryBackoff" \notin DOMAIN store

C8_BoundedWait ==
  \A p \in Procs :
    (call[p].op = "can" /\ call[p].pc = "check") =>
      /\ call[p].timer = "armed"
      /\ now - call[p].at <= 2000

C8_NeverThrows ==
  \A p \in Procs :
    (call[p].op = "can" /\ call[p].pc = "ret") =>
      /\ call[p].result.flag # "threw"
      /\ (call[p].why \in {"timeout", "fail"} => call[p].result.allowed)

C8_FailOpen ==
  \A p \in Procs :
    (call[p].op = "can" /\ call[p].pc = "check" /\ now - call[p].at >= 2000
       /\ call'[p].pc = "ret") =>
      call'[p].result.allowed

\* C8: canMakeRequest() never waits for the store longer than 2000 ms and never
\* throws: a call still unresolved 2000 ms after it was made resolves Allowed,
\* whatever is stored, and so does a call one of whose storage requests rejects.
C8_FailOpenBounded == [](C8_BoundedWait /\ C8_NeverThrows) /\ [][C8_FailOpen]_vars

\* The timer resolved the call Allowed while a backoff window was active.
C8_Witness ==
  /\ call["relay"].op = "can" /\ call["relay"].pc = "ret"
  /\ call["relay"].why = "timeout"
  /\ call["relay"].result.allowed
  /\ backoffActive(getLastRequestTime(store), getRetryBackoff(store), now)

Max(a, b) == IF a > b THEN a ELSE b

\* What is left of the backoff window, and of the spacing window, at the time
\* the check c read: lastRequestTime + backoffDelay - now and
\* lastRequestTime + 4000 - now, or 0 when the window is not active.
RemainingBackoff(c) ==
  IF c.backoff > 0 /\ c.last + c.backoff > c.nowv THEN c.last + c.backoff - c.nowv ELSE 0

RemainingSpacing(c) ==
  IF c.last # 0 /\ c.last + 4000 > c.nowv THEN c.last + 4000 - c.nowv ELSE 0

\* C30: a canMakeRequest() that resolved through its check is Allowed exactly
\* when neither the backoff window nor the spacing window is active, and
\* otherwise is Denied with remainingMs the larger of the times left of the two
\* windows.
C30_StricterWins ==
  \A p \in Procs :
    Checked(p) =>
      LET c == call[p].chk IN
        /\ call[p].result.allowed <=> (RemainingBackoff(c) = 0 /\ RemainingSpacing(c) = 0)
        /\ ~call[p].result.allowed =>
             call[p].result.remainingMs = Max(RemainingBackoff(c), RemainingSpacing(c))

\* A check made 1 s after a request that was throttled: both windows are active,
\* 59 s are left of the backoff and 3 s of the spacing.
C30_Witness ==
  /\ Checked("relay")
  /\ RemainingBackoff(call["relay"].chk) = 59000
  /\ RemainingSpacing(call["relay"].chk) = 3000
  /\ call["relay"].result = Denied(59000, "backoff")

\* A step of canMakeRequest(): of the call, or of a check that outlived it.
CanMakeRequestStep ==
  \/ \E p \in Procs : \/ canMakeRequest_call(p)
                      \/ canMakeRequest_getLast(p)
                      \/ canMakeRequest_getBackoff(p)
                      \/ canMakeRequest_clear(p)
                      \/ canMakeRequest_timeout(p)
                      \/ canMakeRequest_fail(p)
  \/ \E c \in orphans : orphanStep(c)

SameLast == getLastRequestTime(store') = getLastRequestTime(store)

SameBackoff == getRetryBackoff(store') = getRetryBackoff(store)

\* C33: recordRequest() changes only lastRequestTime and leaves the backoff as
\* it is; recordSuccess() and recordRateLimitError() leave lastRequestTime as it
\* is; canMakeRequest() never changes lastRequestTime and changes the backoff
\* only by removing one whose window has elapsed.
C33_FrameConditions ==
  [][/\ (\E p \in Procs : recordRequest(p)) => SameBackoff
     /\ (\E p \in Procs : \/ recordSuccess(p)
                          \/ recordRateLimitError_get(p)
                          \/ recordRateLimitError_set(p)) => SameLast
     /\ CanMakeRequestStep =>
          /\ SameLast
          /\ \/ SameBackoff
             \/ getRetryBackoff(store') = 0 /\ windowElapsed(store, now)]_vars

\* What a check that reads the store s and the time t resolves to.
checkAt(s, t) ==
  LET c == checkGetBackoff(checkGetLast(NoCheck, s), s, t) IN
  IF c.pc = "clear" THEN spacingResult(c.last, c.nowv) ELSE checkResult(c)

\* A countdown of ms that a delay computed at time t started (showError is
\* called at t or later) has ended at the present time, or ends at `until`.
CountdownOver(t, ms) ==
  LET until == t + endTime(ms) IN
  { u \in {until, now} : u >= until }

\* C37: with a monotonic clock and no other request in between, the run that
\* the expiry of a countdown starts is not denied by the window that caused the
\* countdown: the countdown of a denied check (of the requesting context or of
\* the relay) and the countdown of the delay returned for a 429 end no earlier
\* than the spacing or backoff window recorded in the store.
C37_RetryAfterWindow ==
  \A p \in Procs :
    /\ (call[p].op = "can" /\ call[p].pc = "ret" /\ ~call[p].result.allowed) =>
         \A u \in CountdownOver(call[p].chk.nowv, call[p].result.remainingMs) :
           checkAt(store, u).allowed
    /\ (call[p].op = "recErr" /\ call[p].pc = "ret") =>
         \A u \in CountdownOver(now, call[p].cur) : checkAt(store, u).allowed

\* A check was denied for the backoff that a 429 stored, and the time it told
\* to wait has passed.
C37_Witness ==
  /\ call["relay"].op = "can" /\ call["relay"].pc = "ret"
  /\ call["relay"].result.reason = "backoff"
  /\ getRetryBackoff(store) = INITIAL_BACKOFF
  /\ gh.recAt # 0
  /\ now >= call["relay"].chk.nowv + call["relay"].result.remainingMs

-----------------------------------------------------------------------------
(* Properties of the stream decoding, checked under SpecStream *)

\* The texts yielded, and the line held back, when the first n bytes of the body
\* arrive in one read.
inOneRead(n) == readChunk(InitReader, SubSeq(dec.body, 1, n))

\* C5: however the body is cut into reads, after the reads the texts yielded
\* are those yielded when the bytes read so far arrive in a single read, and the
\* same unterminated line and incomplete character are held back: a frame or a
\* character split at a read boundary yields the same chunk as an unsplit one.
C5_PartitionIndependent ==
  /\ dec.out = inOneRead(dec.pos).out
  /\ dec.state = "reading" =>
       /\ dec.buffer = inOneRead(dec.pos).buffer
       /\ dec.pending = inOneRead(dec.pos).pending

\* A body of two frames, read to its end, one read ending inside the two-byte
\* character and one inside a line; both texts were yielded.
C5_Witness ==
  /\ dec.pos = Len(dec.body)
  /\ dec.splitChar /\ dec.splitLine
  /\ dec.out = << <<"U+E9">>, <<"h">> >>

\* The lines of the first n bytes of the body, the last one being the line
\* that no line feed has ended yet.
linesOf(n) == split(decodeBytes("", SubSeq(dec.body, 1, n)).chars)

\* The lines of the bytes read so far that a line feed has ended.
linesRead == SubSeq(linesOf(dec.pos), 1, Len(linesOf(dec.pos)) - 1)

\* What follows the marker of a data line, without the surrounding blanks.
payload(l) == trim(SubSeq(l, Len(DataPrefix) + 1, Len(l)))

IsDataLine(l) == startsWith(l, DataPrefix)

IsDone(l) == IsDataLine(l) /\ payload(l) = DoneMarker

\* A data frame whose payload is the envelope of a non-empty text.
WellFormed(l) ==
  /\ IsDataLine(l)
  /\ LET p == payload(l) IN
       /\ Len(p) >= 3
       /\ p[1] = "{" /\ p[Len(p)] = "}"
       /\ \A i \in 2..(Len(p) - 1) : p[i] \in TextChars

\* A data frame that is neither the end marker nor well formed: its payload is
\* not valid JSON, or is valid JSON without the text.
Malformed(l) == IsDataLine(l) /\ ~IsDone(l) /\ ~WellFormed(l)

textOf(l) == SubSeq(payload(l), 2, Len(payload(l)) - 1)

RECURSIVE textsBeforeDone(_)
\* The texts of the well-formed frames of ls that precede the end marker.
textsBeforeDone(ls) ==
  IF ls = <<>> \/ IsDone(Head(ls)) THEN <<>>
  ELSE IF WellFormed(Head(ls)) THEN <<textOf(Head(ls))>> \o textsBeforeDone(Tail(ls))
  ELSE textsBeforeDone(Tail(ls))

\* C31: a malformed data frame (a data line that is not valid JSON, or valid
\* JSON without the text) yields no chunk and does not end the stream: the
\* texts yielded are those of the well-formed frames received before the end
\* marker, the ones that follow a malformed frame included, and the generator
\* returns (done is sent) only at the end marker or when the body is exhausted.
C31_MalformedSkipped ==
  /\ dec.out = textsBeforeDone(linesRead)
  /\ (dec.state = "returned" /\ dec.pos < Len(dec.body)) =>
       \E i \in 1..Len(linesRead) : IsDone(linesRead[i])

\* The body was read to its end and the generator returned; a malformed frame
\* was followed by a well-formed one, whose text was yielded.
C31_Witness ==
  /\ dec.state = "returned"
  /\ dec.pos = Len(dec.body)
  /\ Len(linesRead) >= 2
  /\ Malformed(linesRead[1])
  /\ WellFormed(linesRead[Len(linesRead)])
  /\ dec.out = <<textOf(linesRead[Len(linesRead)])>>

\* C32: every well-formed data frame the server sent before the stream was
\* exhausted is yielded before the generator returns, a last frame that no
\* line feed has followed when the connection closes included.
C32_LastFrameForwarded ==
  (dec.state = "returned" /\ dec.pos = Len(dec.body)) =>
     dec.out = textsBeforeDone(linesOf(Len(dec.body)))

-----------------------------------------------------------------------------
(* The relay's messages.                                                       *)

terminal(m) == m.type \in {"done", "error"}

RelayHandled == relay.pc = "finished"

\* C3: on a port that stays connected, the messages the relay has sent are chunks
\* followed by at most one terminal message, nothing follows a terminal message,
\* no terminal message is sent before the handling ends, and when it ends
\* exactly one terminal message, a done or an error, has been sent, as the last.
C3_ChunksThenOneTerminal ==
  /\ \A i \in 1..(Len(relay.sent) - 1) : relay.sent[i].type = "chunk"
  /\ ~RelayHandled => \A i \in 1..Len(relay.sent) : relay.sent[i].type = "chunk"
  /\ relay.port = "open" => relay.pc # "stopped"
  /\ (RelayHandled /\ relay.port = "open") =>
       /\ relay.sent # <<>>
       /\ terminal(relay.sent[Len(relay.sent)])

\* A stream that failed after its first chunk: chunk, then error, port connected.
C3_Witness ==
  /\ RelayHandled /\ relay.port = "open"
  /\ Len(relay.sent) = 2
  /\ relay.sent[1].type = "chunk"
  /\ relay.sent[2].type = "error"

RelayDenied == RelayHandled /\ ~relay.gate.allowed

\* C9: when the relay's check of a request is denied, the relay makes no upstream
\* call, calls neither recordRequest() nor recordRateLimitError(), writes nothing
\* to the store, and sends, if the port is connected, one message only: the
\* error RATE_LIMITED carrying the remainingMs of the check, which is positive,
\* and the wait formatted from it.
C9_DeniedByGate ==
  RelayDenied =>
    /\ relay.gate = call["relay"].result
    /\ relay.gate.remainingMs > 0
    /\ relay.fetches = 0 /\ relay.status = 0
    /\ ~relay.recorded /\ relay.errCalls = 0
    /\ ~relay.wrote
    /\ relay.port = "open" =>
         /\ Len(relay.sent) = 1
         /\ relay.sent[1].type = "error"
         /\ relay.sent[1].error.kind = "RATE_LIMITED"
         /\ relay.sent[1].error.ms = relay.gate.remainingMs
         /\ relay.sent[1].error.wait = formatTimeRemaining(relay.gate.remainingMs)
    /\ relay.port # "open" => relay.sent = <<>>

\* The second request comes 3 s after the first was recorded and is refused for
\* the remaining second, while the store holds the first request's time.
C9_Witness ==
  /\ RelayDenied /\ relay.port = "open"
  /\ relay.nreq = 2
  /\ relay.gate.reason = "rate_limit"
  /\ relay.sent[1].error.ms = 1000
  /\ relay.sent[1].error.wait = [n |-> 1, unit |-> "second"]
  /\ getLastRequestTime(store) = now - 3000

RelayRejected == RelayHandled /\ relay.status # 0 /\ relay.status # 200 /\ relay.bodyRead

\* C10: when the upstream answers with a status that is not 200 and the error
\* body is read, the relay sends, if the port is connected, one message only, an
\* error: INVALID_KEY for 400; for 429 RATE_LIMITED carrying the delay that its
\* one call of recordRateLimitError() returned; for any other status
\* the message of the server, or `API error (<status>)` if it gave none.
\* recordRateLimitError() is called for 429 only.
C10_StatusMapping ==
  RelayRejected =>
    /\ relay.errCalls = IF relay.status = 429 THEN 1 ELSE 0
    /\ relay.port = "open" =>
         /\ Len(relay.sent) = 1
         /\ relay.sent[1].type = "error"
         /\ LET e == relay.sent[1].error IN
              CASE relay.status = 400 -> e.kind = "INVALID_KEY"
                [] relay.status = 429 ->
                     /\ e.kind = "RATE_LIMITED"
                     /\ e.ms = gh.errRet
                     /\ e.ms \in {INITIAL_BACKOFF, 2 * INITIAL_BACKOFF,
                                  4 * INITIAL_BACKOFF, MAX_BACKOFF}
                     /\ e.wait = formatTimeRemaining(e.ms)
                [] OTHER ->
                     IF relay.hasMessage
                     THEN e.kind = "SERVER_MESSAGE"
                     ELSE e.kind = "API error" /\ e.ms = relay.status
    /\ relay.port # "open" => relay.sent = <<>>

\* The second 429 in a row: the relay reports the doubled delay, two minutes.
C10_Witness ==
  /\ RelayRejected /\ relay.port = "open"
  /\ relay.status = 429
  /\ relay.sent[1].error.ms = 2 * INITIAL_BACKOFF
  /\ relay.sent[1].error.wait = [n |-> 2, unit |-> "minutes"]

-----------------------------------------------------------------------------
(* The controller's runs and their ports.                                      *)

OpenPorts == { n \in RunIds : runs[n].port = "open" }

\* C1: at most one port opened by the controller is open; and a run whose port
\* was open when runBriefrr was invoked again has returned, its port
\* disconnected by one call of port.disconnect().
C1_OneOpenChannel ==
  /\ Cardinality(OpenPorts) <= 1
  /\ \A n \in RunIds :
       runs[n].superseded =>
         /\ runs[n].pc = "settled"
         /\ runs[n].port = "closed"
         /\ runs[n].disconnectCalls = 1

RECURSIVE concat(_)
concat(texts) == IF texts = <<>> THEN <<>> ELSE Head(texts) \o concat(Tail(texts))

\* C4: for a run that is live (no run was started and the drawer was not closed
\* since it started), the accumulated text is the concatenation, in the order of
\* arrival, of the texts of the chunks its port delivered; and once done was
\* delivered the run has returned with that text, as a success, its port
\* disconnected by its one call of port.disconnect(), and isStreaming is false.
C4_AccumulatesInOrder ==
  \A n \in RunIds :
    (runs[n].pc # "none" /\ live(sess, n)) =>
      /\ runs[n].accumulated = concat(runs[n].received)
      /\ runs[n].gotDone =>
           /\ runs[n].pc = "settled" /\ runs[n].outcome = "ok"
           /\ runs[n].port = "closed" /\ runs[n].disconnectCalls = 1
           /\ ~sess.isStreaming

\* The second run, started while the first was streaming, received two chunks
\* and done.
C4_Witness ==
  /\ live(sess, 2)
  /\ runs[2].gotDone
  /\ runs[2].received = <<ChunkText(1), ChunkText(2)>>
  /\ runs[2].accumulated = <<1, 2, 2>>
  /\ runs[1].pc = "settled" /\ runs[1].port = "closed"

-----------------------------------------------------------------------------
(* The status-code contract of the two upstream calls.                         *)

\* C11: for an upstream answer of 400 or of 403 the relay sends the error
\* INVALID_KEY and validateApiKey returns {valid: false, error: 'INVALID_KEY'};
\* for 429 the relay sends RATE_LIMITED and validateApiKey returns RATE_LIMITED.
C11_InvalidCredentialStatuses ==
  (RelayRejected /\ relay.port = "open") =>
    LET e == relay.sent[1].error
        v == validateApiKey(relay.status, relay.hasMessage)
    IN /\ relay.status \in {400, 403} =>
            /\ e.kind = "INVALID_KEY"
            /\ v = [valid |-> FALSE, error |-> "INVALID_KEY"]
       /\ relay.status = 429 =>
            /\ e.kind = "RATE_LIMITED"
            /\ v = [valid |-> FALSE, error |-> "RATE_LIMITED"]

-----------------------------------------------------------------------------
(* Properties of the controller and its timers, checked under SpecSession and  *)
(* FairSession *)

\* The error the relay sends on HTTP 429 when no backoff was stored.
firstThrottle == throttledError(nextBackoff(0))

\* The step renders the error view of firstThrottle.
RendersFirstThrottle ==
  /\ sess'.content # sess.content
  /\ sess'.content.tag = "error"
  /\ sess'.content.message = firstThrottle.text

\* The step is the invocation of runBriefrr by the given trigger.
Invoked(trigger) ==
  /\ sess'.started = sess.started + 1
  /\ runs'[sess'.started].trigger = trigger

C13_RetryKeepsMode ==
  [][Invoked("countdown") => runs'[sess'.started].mode = sess.retryMode]_vars

\* C17: at most one timeout of switchMode is pending; the run a timeout starts
\* is started 500 ms after the latest selection of a mode, for the mode selected
\* then, and leaves no timeout pending, so that a burst of selections less than
\* 500 ms apart starts one run; and a pending timeout does start its run, unless
\* the drawer is closed first.
C17_DebounceOneRun ==
  /\ [](Cardinality(sess.timeouts) <= 1)
  /\ [][Invoked("debounce") =>
          /\ sess.debounceTimer \in sess.timeouts
          /\ sess.debounceTimer.age = 500
          /\ runs'[sess'.started].mode = sess.debounceTimer.mode
          /\ sess'.timeouts = {}]_vars
  /\ \A k \in 0..(MaxRuns - 1) :
        (sess.timeouts # {} /\ sess.started = k) ~> (sess.started > k \/ sess.timeouts = {})

\* The timeout set by the second selection of a burst, for explain, is due.
C17_Witness ==
  /\ sess.debounceTimer \in sess.timeouts
  /\ sess.debounceTimer = timeout("explain", 0, 500, TRUE)
  /\ sess.started < MaxRuns

\* The step is a selection of a mode by the user.
SelectStep ==
  /\ acts' = acts + 1
  /\ sess'.started = sess.started
  /\ sess'.open

\* The step is the arrival of a chunk message at the port of run n.
ChunkStep(n) == Len(runs'[n].received) = Len(runs[n].received) + 1

\* C18: a mode selected while a run is streaming cancels the stream: right
\* after switchMode has returned no port of an earlier run is open, and the
\* chunks that arrive while the timeout of the selection is pending change
\* neither the view nor any accumulated text.
C18_SelectCancelsStream ==
  /\ [][SelectStep => \A n \in RunIds : runs'[n].port # "open"]_vars
  /\ [][\A n \in RunIds :
          (sess.timeouts # {} /\ ChunkStep(n)) =>
            /\ sess'.content = sess.content
            /\ runs'[n].accumulated = runs[n].accumulated]_vars

\* C19: selecting the search mode leaves no timeout pending and starts nothing;
\* a run in the search mode that read an empty or blank query has opened no
\* port; and no run in the search mode is started but by the user, or by the
\* countdown of a run in the search mode that the user started.
C19_QueryModeWaits ==
  /\ [][(SelectStep /\ sess'.currentMode = "search") =>
          sess'.timeouts = {} /\ runs' = runs]_vars
  /\ [](\A n \in RunIds :
          (runs[n].mode = "search" /\ trimmed(runs[n].found.query) = "") => runs[n].port = "none")
  /\ [][(Invoked("debounce") \/ (Invoked("countdown") /\ sess.retryMode # "search")) =>
          runs'[sess'.started].mode # "search"]_vars

\* C20: from closeDrawer() to the next action of the user no port is open, no
\* timeout and no countdown is pending, and no run is started.
C20_ClosedIsQuiet ==
  /\ [](sess.closed =>
         /\ \A n \in RunIds : runs[n].port # "open"
         /\ sess.timeouts = {}
         /\ ~sess.countdownInterval)
  /\ [][(sess.closed /\ sess'.closed) => sess'.started = sess.started]_vars

\* The step is an invocation of runBriefrr that no timeout of switchMode made:
\* by the popup's message, a submitted query, the retry button or the countdown.
InvokedDirectly == Invoked("user") \/ Invoked("countdown")

\* C21: when runBriefrr is invoked by the user or by the countdown, no timeout
\* of switchMode and no countdown is pending once it has reached its first
\* await, so that no timer set earlier starts a further run.
C21_RunClearsTimers ==
  [][InvokedDirectly => sess'.timeouts = {} /\ ~sess'.countdownInterval]_vars

-----------------------------------------------------------------------------
(* Properties of the runs, checked under SpecController *)

\* What run n read cannot be used: there is no key, extractContent() threw, or
\* the content is missing or shorter than 50 characters once trimmed.
Unusable(n) ==
  \/ ~runs[n].found.hasKey
  \/ runs[n].found.article.throws
  \/ runs[n].found.article.length < 50

\* C14: a run that finds no stored key, whose extraction throws, or whose
\* content is absent or shorter than 50 characters once trimmed (40, say) has
\* opened no port, and so has caused no upstream call.
C14_NoChannelWithoutInput ==
  \A n \in RunIds : Unusable(n) => runs[n].port = "none"

C14_Witness ==
  \E n \in RunIds :
    /\ runs[n].outcome = "gave up" /\ runs[n].found.article.length = 40
    /\ runs[n].port = "none"

\* The article of run n cannot be used.
ExtractionFails(n) ==
  runs[n].found.article.throws \/ runs[n].found.article.length < 50

\* C15: a run whose extraction fails (it throws, or the content is absent or too
\* short) settles by giving up with the could-not-extract error and not by a
\* denied check with its countdown, whatever the RateLimiter answers.
C15_ExtractsBeforeGate ==
  \A n \in RunIds :
    (runs[n].pc = "settled" /\ live(sess, n) /\ ExtractionFails(n)) =>
      /\ runs[n].outcome = "gave up"
      /\ ~sess.countdownInterval

\* The step is the return of run n from a denied check.
DeniedStep(n) == runs[n].pc = "gate" /\ runs'[n].pc = "settled"

\* C16: when canMakeRequest() answers run n with Denied and remainingMs = r, the
\* run returns with the error view of that denial, whose countdown is r, with an
\* interval that has r ms to run, with isStreaming false and without a port.
C16_DeniedStartsCountdown ==
  [][\A n \in RunIds :
       DeniedStep(n) =>
         /\ \E res \in GateResults :
              /\ ~res.allowed
              /\ sess'.content = errorView(deniedMessage(res), FALSE, res.remainingMs)
              /\ sess'.content.countdownMs = res.remainingMs
              /\ sess'.countdownInterval /\ sess'.countdownLeft = res.remainingMs
         /\ ~sess'.content.retry
         /\ ~sess'.isStreaming
         /\ runs'[n].port = "none"]_vars

C16_Witness ==
  \E n \in RunIds :
    /\ runs[n].outcome = "denied" /\ runs[n].port = "none"
    /\ sess.content = errorView(deniedMessage(Denied(1000, "rate_limit")), FALSE, 1000)
    /\ sess.countdownInterval /\ sess.countdownLeft = 1000
    /\ ~sess.isStreaming

\* The step is the loss of the port of the live run n: the port closes without
\* a call of port.disconnect().
LostStep(n) ==
  /\ live(sess, n) /\ live(sess', n)
  /\ runs[n].port = "open" /\ runs'[n].port = "closed"
  /\ runs'[n].disconnectCalls = runs[n].disconnectCalls

\* C22: when the port of a live run closes with no done and no error message
\* delivered: if nothing was accumulated the run returns with an error view that
\* has the retry button and no countdown, and no interval is started; if a chunk
\* was accumulated the run returns as a success and the view, with the text it
\* displays, is left as it is.  isStreaming is false in both cases.
C22_LostChannel ==
  [][\A n \in RunIds :
       LostStep(n) =>
         /\ runs'[n].pc = "settled"
         /\ ~sess'.isStreaming
         /\ IF runs[n].accumulated = <<>>
            THEN /\ runs'[n].outcome = "error"
                 /\ sess'.content.tag = "error"
                 /\ sess'.content.retry /\ sess'.content.countdownMs = 0
                 /\ sess'.countdownInterval = sess.countdownInterval
                 /\ sess'.countdownLeft = sess.countdownLeft
            ELSE /\ runs'[n].outcome = "ok"
                 /\ runs'[n].accumulated = runs[n].accumulated
                 /\ sess'.content = sess.content]_vars

\* The port of a run was lost after its first chunk: the run succeeded and the
\* view shows the chunk.
C22_Witness ==
  \E n \in RunIds :
    /\ live(sess, n)
    /\ runs[n].pc = "settled" /\ runs[n].outcome = "ok"
    /\ runs[n].port = "closed" /\ runs[n].disconnectCalls = 0
    /\ runs[n].accumulated = ChunkText(1)
    /\ sess.content = markdown(ChunkText(1))

\* C23: when an error message arrives at the port of the live run, the run
\* returns, its port disconnected by one call of port.disconnect(), with
\* isStreaming false and an error view: for INVALID_KEY with no countdown and
\* no interval started; for RATE_LIMITED:<ms>:<message> with the message, a
\* countdown of ms, no retry button, and an interval that has ms to run; for
\* 'Failed to fetch' and for any other message with the retry button, no
\* countdown and no interval started.
C23_ErrorClasses ==
  [][\A n \in RunIds, e \in PortErrors :
       (live(sess, n) /\ ErrorArrives(n, e)) =>
         /\ runs'[n].pc = "settled" /\ runs'[n].outcome = "error"
         /\ runs'[n].port = "closed"
         /\ runs'[n].disconnectCalls = runs[n].disconnectCalls + 1
         /\ ~sess'.isStreaming
         /\ sess'.content.tag = "error"
         /\ CASE e.kind = "INVALID_KEY" ->
                   /\ sess'.content.countdownMs = 0
                   /\ sess'.countdownInterval = sess.countdownInterval
                   /\ sess'.countdownLeft = sess.countdownLeft
              [] e.kind = "RATE_LIMITED" ->
                   /\ e.ms > 0
                   /\ sess'.content = errorView(e.text, FALSE, e.ms)
                   /\ sess'.content.countdownMs = e.ms /\ ~sess'.content.retry
                   /\ sess'.countdownInterval /\ sess'.countdownLeft = e.ms
              [] OTHER ->
                   /\ sess'.content.retry /\ sess'.content.countdownMs = 0
                   /\ sess'.countdownInterval = sess.countdownInterval
                   /\ sess'.countdownLeft = sess.countdownLeft]_vars

\* The relay's check denied the request of the live run with one second left:
\* the run returned with the countdown of one second.
C23_Witness ==
  \E n \in RunIds :
    /\ live(sess, n)
    /\ runs[n].outcome = "error" /\ runs[n].port = "closed" /\ runs[n].disconnectCalls = 1
    /\ sess.content = errorView(gateError(Denied(1000, "rate_limit")).text, FALSE, 1000)
    /\ sess.countdownInterval /\ sess.countdownLeft = 1000
    /\ ~sess.isStreaming

\* The step in which run n opens its port and sends its request.
Connects(n) == runs[n].port # "open" /\ runs'[n].port = "open"

\* C34: a run whose controller was aborted (by closeDrawer or by a newer run)
\* while the run was suspended before opening its port, in the check or in the
\* read of the key, never opens a port and never sends a request.
C34_CancelledNeverConnects ==
  [][\A n \in RunIds : Connects(n) => ~runs[n].cancelled]_vars

\* Run n has not settled: it is suspended in the check or in the read of the
\* key, or waits for its port.
InFlight(n) == runs[n].pc \in {"gate", "apikey", "streaming"}

\* C35: in every reachable state, if some run has not settled yet, isStreaming
\* is true; a cancelled run that finishes does not reset the flag while a newer
\* run is in flight.
C35_StreamingWhileInFlight ==
  (\E n \in RunIds : InFlight(n)) => sess.isStreaming

\* C36: in every reachable state at most one countdown interval is running,
\* and it is the one countdownInterval holds, so that the interval that expires
\* is the one clearInterval(countdownInterval) stops: an expired countdown
\* starts one run and never fires again.
C36_OneCountdown == sess.stale = {}

\* C38: every run started eventually settles (runBriefrr returns), provided
\* the storage calls resolve and the relay sends a terminal message or the port
\* closes; also a run that is cancelled at any point.  Checked under
\* FairController.
C38_RunsSettle ==
  \A n \in RunIds : InFlight(n) ~> (runs[n].pc = "settled")

-----------------------------------------------------------------------------
(* Properties of the relay and its use of the limiter, checked under SpecRelay *)

\* The step belongs to the handling of the request that is being handled.
SameRequest == relay'.nreq = relay.nreq

\* C25: once the port is disconnected the relay sends nothing more on it; the
\* listener ends without a terminal message only when the send of a chunk
\* failed, and having ended so it does nothing more for the request (no read, no
\* upstream call, no message); a terminal message that cannot be sent ends the
\* listener as a sent one does.
C25_FailedSendStops ==
  /\ [][(relay.port = "closed" /\ SameRequest) => relay'.sent = relay.sent]_vars
  /\ [][(relay.pc # "stopped" /\ relay'.pc = "stopped") =>
          /\ relay.port = "closed" /\ relay.pc = "reading"
          /\ Len(dec'.out) > Len(dec.out)]_vars
  /\ [][(relay.pc = "stopped" /\ SameRequest) => relay' = relay /\ dec' = dec]_vars
  /\ [](relay.pc = "stopped" => \A i \in 1..Len(relay.sent) : relay.sent[i].type = "chunk")
  /\ [][(relay.port = "closed" /\ relay.pc \in {"reading", "errbody", "recerr", "fetch"}
           /\ relay' # relay /\ SameRequest) =>
          relay'.pc \in {"reading", "errbody", "recerr", "success", "stopped", "finished"}]_vars

\* C28: when k requests in a row pass the relay's check, each arriving once the
\* backoff window of the one before has elapsed, and each is answered 429, the
\* RATE_LIMITED error of the k-th carries the delay min(60000 * 2^(k-1), 300000).
C28_PenaltyEscalates ==
  (RelayRejected /\ relay.status = 429 /\ relay.port = "open"
     /\ relay.streak >= 1 /\ relay.waited) =>
    relay.sent[1].error.ms = Min(60000 * 2^(relay.streak - 1), 300000)

\* The step sends a chunk.
SendsChunk ==
  /\ Len(relay'.sent) > Len(relay.sent)
  /\ relay'.sent[Len(relay.sent) + 1].type = "chunk"

\* C26: the upstream call of a request is issued when recordRequest() has
\* stored the time of the request, after canMakeRequest() returned Allowed;
\* recordSuccess() is called after a 200 response and before any chunk is sent;
\* recordRateLimitError() is called after a 429 response only; and the relay
\* changes the stored backoff only in its check, after 200 (it removes it) and
\* after 429 (it sets it): a 400 or another status leaves it as it is.
C26_RelayOrder ==
  /\ [][(relay'.fetches > relay.fetches /\ SameRequest) =>
          /\ relay.pc = "record" /\ relay.fetches = 0
          /\ relay.gate.allowed /\ relay.gate = call["relay"].result
          /\ relay.recorded
          /\ getLastRequestTime(store') = relay.stamp]_vars
  /\ [](relay.pc \in {"fetch", "errbody", "recerr", "success", "reading"} =>
          relay.fetches = 1 /\ getLastRequestTime(store) = relay.stamp)
  /\ [][(relay.pc # "reading" /\ relay'.pc = "reading") =>
          /\ relay.pc = "success" /\ relay.status = 200
          /\ relay.sent = <<>> /\ relay'.sent = <<>>
          /\ getRetryBackoff(store') = 0]_vars
  /\ [][(SendsChunk /\ SameRequest) => relay.pc = "reading" /\ relay.status = 200]_vars
  /\ [][(relay'.errCalls > relay.errCalls /\ SameRequest) =>
          relay.pc = "errbody" /\ relay.status = 429]_vars
  /\ [][(relay' # relay /\ SameRequest /\ getRetryBackoff(store') # getRetryBackoff(store)) =>
          \/ relay.pc = "gate"
          \/ relay.pc = "success" /\ relay.status = 200 /\ getRetryBackoff(store') = 0
          \/ relay.pc = "recerr" /\ relay.status = 429 /\ getRetryBackoff(store') > 0]_vars

\* The second request was answered 200 while a backoff was stored, and its
\* first chunk is sent: the backoff is removed.
C26_Witness ==
  /\ relay.nreq = 2 /\ relay.status = 200
  /\ relay.sent # <<>> /\ relay.sent[1].type = "chunk"
  /\ relay.fetches = 1 /\ getLastRequestTime(store) = relay.stamp
  /\ gh.errRet = INITIAL_BACKOFF /\ getRetryBackoff(store) = 0

\* The port was disconnected after the first chunk: the send of the second
\* failed and the listener ended.
C25_Witness ==
  /\ relay.pc = "stopped" /\ relay.port = "closed"
  /\ Len(relay.sent) = 1 /\ relay.sent[1].type = "chunk"
  /\ Len(dec.out) = 2

-----------------------------------------------------------------------------
(* Properties of concurrent uses of the limiter, checked under SpecChannels *)

\* C24: in every reachable state, whatever the interleaving of the storage
\* steps of canMakeRequest, recordRequest, recordSuccess and
\* recordRateLimitError of two flows that use no lock, the persisted backoff
\* is absent or is one of 60000, 120000, 240000, 300000 ms.
C24_PersistedBackoff ==
  \/ "retryBackoff" \notin DOMAIN store
  \/ store["retryBackoff"] \in {60000, 120000, 240000, 300000}

\* A lost update: the two flows were both refused upstream, both read "no
\* backoff" before either wrote, and both have written the first backoff.
C24_Witness ==
  /\ \A p \in Procs : /\ chans[p].pc = "idle"
                       /\ call[p].op = "recErr" /\ call[p].pc = "ret"
                       /\ call[p].cur = INITIAL_BACKOFF
  /\ "retryBackoff" \in DOMAIN store
  /\ store["retryBackoff"] = INITIAL_BACKOFF

\* The step on which the flow p issues its upstream call.
UpstreamCall(p) == chans[p].pc = "record" /\ chans'[p].pc = "fetch"

\* C29: with responsive storage, no two upstream generation calls are issued
\* less than 4000 ms apart, under any interleaving of requests that arrive on
\* different channels and each check canMakeRequest() and then call
\* recordRequest() as separate suspendable steps.
C29_UpstreamSpacing ==
  [][\A p \in Procs :
       (UpstreamCall(p) /\ prompt(chans[p], now)) =>
         \A q \in Procs :
           chans[q].fetchAt = 0 \/ now - chans[q].fetchAt >= MIN_REQUEST_DELAY]_vars

\* C39: after the relay has recorded a 429 with delay d for a request stamped
\* at t, it issues no upstream call before t + d (with responsive storage),
\* whatever the interleaving with the requests that were in flight when the
\* 429 arrived, one whose successful response calls recordSuccess() included:
\* a request that begins once the 429 is recorded reaches the upstream only at
\* t + d or later.
C39_BackoffHonoured ==
  [][\A p \in Procs, q \in Procs :
       (UpstreamCall(p) /\ prompt(chans[p], now) /\ chans[p].after429 /\ Throttled(q)) =>
         now >= chans[q].stamp + call[q].cur]_vars

-----------------------------------------------------------------------------
(* Properties of formatTimeRemaining, checked under SpecFormat *)

Seconds == {"second", "seconds"}

Minutes == {"minute", "minutes"}

\* n is the least whole number of units of `unit` ms that covers ms.
Ceiling(n, ms, unit) == n * unit >= ms /\ (n - 1) * unit < ms

Singular(w) == w.unit \in {"second", "minute"}

\* C27 as stated: for ms < 60000 the result is the number of seconds, rounded
\* up, with the unit second(s), otherwise the number of minutes, rounded up, with the
\* unit minute(s); the unit is singular exactly when the number is 1.
C27_AsStated ==
  fmt.called =>
    /\ IF fmt.ms < 60000
       THEN fmt.out.unit \in Seconds /\ Ceiling(fmt.out.n, fmt.ms, 1000)
       ELSE fmt.out.unit \in Minutes /\ Ceiling(fmt.out.n, fmt.ms, 60000)
    /\ Singular(fmt.out) <=> fmt.out.n = 1

\* C27, amended: for ms <= 59000 (less than 60 seconds once rounded up to whole
\* seconds) the result is the number of seconds, rounded up, with the unit
\* second(s), otherwise the number of minutes, rounded up, with the unit
\* minute(s); the unit is singular exactly when the number is 1.
C27_SecondsThenMinutes ==
  fmt.called =>
    /\ IF fmt.ms <= 59000
       THEN fmt.out.unit \in Seconds /\ Ceiling(fmt.out.n, fmt.ms, 1000)
       ELSE fmt.out.unit \in Minutes /\ Ceiling(fmt.out.n, fmt.ms, 60000)
    /\ Singular(fmt.out) <=> fmt.out.n = 1

\* 59999 ms is rendered as one minute.
C27_Witness ==
  /\ fmt.called /\ fmt.ms = 59999
  /\ fmt.out = [n |-> 1, unit |-> "minute"]

====
